---- MODULE Spec2Model ----
(***************************************************************************)
(* Transaction layer of parity-bitcoin (chain::Transaction and             *)
(* script::TransactionInputSigner): the version-gated wire codec and the   *)
(* signature-hash engine.                                                  *)
(*                                                                         *)
(* Representation.  The wire is a sequence of bytes (0..255).  i32 values  *)
(* are integers; u32 and u64 values are tuples of 16-bit limbs, least      *)
(* significant first, so that 0xFFFFFFFF and u64::MAX are representable.   *)
(* The hash primitives are black boxes: a digest is the bracketed preimage *)
(* (collision-free, never equal to a constant 32-byte value).              *)
(***************************************************************************)
EXTENDS Integers, Sequences, FiniteSets, TLC

\* ------------------------------------------------------------------ bounds
MaxInputs == 2
MaxOutputs == 2
MaxJoinSplits == 1
MaxShieldedSpends == 1
MaxShieldedOutputs == 1
MaxExtra == 1
MaxIndex == 2
\* transparent inputs plus outputs of a transaction that carries Zcash data
MaxZcashIO == 1
\* widths of the opaque proof and ciphertext blocks of the hash crate; the
\* codec copies them verbatim, the model carries them at a reduced width
ZkProofSaplingLen == 2
EncCipherTextLen == 3
OutCipherTextLen == 2
CipherTextLen == 3

\* ------------------------------------------------------ program constants
H64Len == 8
H256Len == 32
H512Len == 64
WITNESS_MARKER == 0
WITNESS_FLAG == 1
OP_CODESEPARATOR == 171
MinI32 == (-2147483647) - 1

\* ------------------------------------------------------------- primitives
RECURSIVE Flatten(_)
Flatten(ss) == IF ss = <<>> THEN <<>> ELSE Head(ss) \o Flatten(Tail(ss))

Blob(n, b) == [i \in 1..n |-> b]

U32(n) == <<n % 65536, n \div 65536>>
U64(n) == <<n % 65536, n \div 65536, 0, 0>>
SEQUENCE_FINAL == <<65535, 65535>>
U64Max == <<65535, 65535, 65535, 65535>>

SerLimb(l) == <<l % 256, l \div 256>>
SerU32(u) == SerLimb(u[1]) \o SerLimb(u[2])
SerU64(u) == SerLimb(u[1]) \o SerLimb(u[2]) \o SerLimb(u[3]) \o SerLimb(u[4])
SerI32(v) ==
    LET n == IF v >= 0 THEN v ELSE v - MinI32
    IN  <<n % 256, (n \div 256) % 256, (n \div 65536) % 256,
          (n \div 16777216) + (IF v < 0 THEN 128 ELSE 0)>>

\* CompactInteger, as written by Stream::append_list and Bytes
SerCompact(n) == IF n < 253 THEN <<n>> ELSE <<253, n % 256, n \div 256>>
SerBytes(b) == SerCompact(Len(b)) \o b

\* ------------------------------------------------------------ hash boxes
dhash256(bytes) == <<-1>> \o bytes \o <<-2>>
blake_2b_256_personal(input, personal) == <<-3>> \o personal \o <<-4>> \o input \o <<-5>>
H256Zero == Blob(H256Len, 0)
H512Zero == Blob(H512Len, 0)
\* H256::from(1u8)
H256FromU8(v) == [i \in 1..H256Len |-> IF i = 1 THEN v ELSE 0]

\* ------------------------------------------------- data model (chain crate)
OutPoint_null == [hash |-> H256Zero, index |-> <<65535, 65535>>]
\* (faulty variant) an outpoint with a zero hash is null whatever its index
OutPoint_is_null_hash_only(o) == o.hash = H256Zero
OutPoint_is_null(o) == o.hash = H256Zero /\ o.index = <<65535, 65535>>

TransactionInput_has_witness(i) == i.script_witness # <<>>
TransactionInput_is_final(i) == i.sequence = SEQUENCE_FINAL
TransactionOutput_default == [value |-> U64Max, script_pubkey |-> <<>>]

has_witness(t) == \E k \in 1..Len(t.inputs) : TransactionInput_has_witness(t.inputs[k])

\* Transaction::is_coinbase
Transaction_is_coinbase(t) ==
    Len(t.inputs) = 1 /\ OutPoint_is_null(t.inputs[1].previous_output)

\* (faulty variant) the lock time is not looked at
Transaction_is_final_sequence_only(t) ==
    \A k \in 1..Len(t.inputs) : TransactionInput_is_final(t.inputs[k])

\* Transaction::is_final
Transaction_is_final(t) ==
    IF t.lock_time = U32(0) THEN TRUE
    ELSE \A k \in 1..Len(t.inputs) : TransactionInput_is_final(t.inputs[k])

\* a < b on u64
LessU64(a, b) == \E k \in 1..4 : a[k] < b[k] /\ \A j \in (k + 1)..4 : a[j] = b[j]
\* u64::max_value() - a: no limb borrows
MaxMinusU64(a) == [k \in 1..4 |-> 65535 - a[k]]
\* a + b on u64, from limb k on with carry c
RECURSIVE AddLimbs(_, _, _, _)
AddLimbs(a, b, k, c) ==
    IF k > 4 THEN <<>>
    ELSE <<(a[k] + b[k] + c) % 65536>> \o AddLimbs(a, b, k + 1, (a[k] + b[k] + c) \div 65536)
AddU64(a, b) == AddLimbs(a, b, 1, 0)

\* the loop of total_spends from output k on
RECURSIVE TotalSpendsFrom(_, _, _)
TotalSpendsFrom(outputs, k, result) ==
    IF k > Len(outputs) THEN result
    ELSE IF LessU64(MaxMinusU64(result), outputs[k].value) THEN U64Max
    ELSE TotalSpendsFrom(outputs, k + 1, AddU64(result, outputs[k].value))

\* (faulty variant) the values are added without the test
RECURSIVE WrappingSpendsFrom(_, _, _)
WrappingSpendsFrom(outputs, k, result) ==
    IF k > Len(outputs) THEN result
    ELSE WrappingSpendsFrom(outputs, k + 1, AddU64(result, outputs[k].value))
Transaction_total_spends_wrapping(t) == WrappingSpendsFrom(t.outputs, 1, U64(0))

\* Transaction::total_spends
Transaction_total_spends(t) == TotalSpendsFrom(t.outputs, 1, U64(0))

\* ------------------------------------------------------------ serializers
SerOutPoint(o) == o.hash \o SerU32(o.index)
SerInput(i) == SerOutPoint(i.previous_output) \o SerBytes(i.script_sig) \o SerU32(i.sequence)
SerOutput(o) == SerU64(o.value) \o SerBytes(o.script_pubkey)
SerShieldedSpend(s) ==
    s.cv \o s.anchor \o s.nullifier \o s.rk \o s.zkproof \o s.spend_auth_sig
SerShieldedOutput(s) ==
    s.cv \o s.cmu \o s.ephemeral_key \o s.enc_cipher_text \o s.out_cipher_text \o s.zkproof
SerJoinSplit(j) ==
    j.v_pub_old \o j.v_pub_new \o j.anchor \o j.nullifiers[1] \o j.nullifiers[2]
      \o j.commitments[1] \o j.commitments[2] \o j.ephemeral_key \o j.random_seed
      \o j.macs[1] \o j.macs[2] \o j.zkproof \o j.ciphertexts[1] \o j.ciphertexts[2]

SerInputList(s) == SerCompact(Len(s)) \o Flatten([k \in 1..Len(s) |-> SerInput(s[k])])
SerOutputList(s) == SerCompact(Len(s)) \o Flatten([k \in 1..Len(s) |-> SerOutput(s[k])])
SerSpendList(s) == SerCompact(Len(s)) \o Flatten([k \in 1..Len(s) |-> SerShieldedSpend(s[k])])
SerSOutputList(s) == SerCompact(Len(s)) \o Flatten([k \in 1..Len(s) |-> SerShieldedOutput(s[k])])
SerJoinSplitList(s) == SerCompact(Len(s)) \o Flatten([k \in 1..Len(s) |-> SerJoinSplit(s[k])])
SerWitnessStack(s) == SerCompact(Len(s)) \o Flatten([k \in 1..Len(s) |-> SerBytes(s[k])])

\* header |= 1 << 31
HeaderOf(t) == IF t.overwintered /\ t.version >= 0 THEN t.version + MinI32 ELSE t.version

\* Transaction::serialize, the arm `false`
SerializeBase(t) ==
    SerI32(HeaderOf(t))
      \o (IF t.overwintered THEN SerU32(t.version_group_id) ELSE <<>>)
      \o SerInputList(t.inputs) \o SerOutputList(t.outputs) \o SerU32(t.lock_time)
      \o (IF t.overwintered /\ t.version >= 3
            THEN SerU32(t.expiry_height)
                   \o (IF t.version >= 4
                         THEN SerU64(t.value_balance) \o SerSpendList(t.shielded_spends)
                                \o SerSOutputList(t.shielded_outputs)
                         ELSE <<>>)
            ELSE <<>>)
      \o (IF t.version = 2 \/ t.overwintered
            THEN SerJoinSplitList(t.join_splits)
                   \o (IF Len(t.join_splits) > 0
                         THEN t.join_split_pubkey \o t.join_split_sig ELSE <<>>)
            ELSE <<>>)
      \o (IF t.version >= 4 /\ t.overwintered
              /\ ~(Len(t.shielded_outputs) = 0 /\ Len(t.shielded_spends) = 0)
            THEN t.binding_sig ELSE <<>>)

\* (faulty variant) the arm `true` writes the header with the overwinter bit
\* and the version group id, as the arm `false` does
SerializeWitness_with_header(t) ==
    SerI32(HeaderOf(t))
      \o (IF t.overwintered THEN SerU32(t.version_group_id) ELSE <<>>)
      \o <<WITNESS_MARKER, WITNESS_FLAG>>
      \o SerInputList(t.inputs) \o SerOutputList(t.outputs)
      \o Flatten([k \in 1..Len(t.inputs) |-> SerWitnessStack(t.inputs[k].script_witness)])
      \o SerU32(t.lock_time)

\* Transaction::serialize, the arm `true`
SerializeWitness(t) ==
    SerI32(t.version) \o <<WITNESS_MARKER, WITNESS_FLAG>>
      \o SerInputList(t.inputs) \o SerOutputList(t.outputs)
      \o Flatten([k \in 1..Len(t.inputs) |-> SerWitnessStack(t.inputs[k].script_witness)])
      \o SerU32(t.lock_time)

Transaction_serialize(t, include_witness) ==
    IF include_witness /\ has_witness(t) THEN SerializeWitness(t) ELSE SerializeBase(t)

serialize(t) == Transaction_serialize(t, FALSE)
serialize_with_flags(t, flags) == Transaction_serialize(t, flags)

\* (faulty variant) hash() over the encoding with the witness
Transaction_hash_with_witness(t) == dhash256(serialize_with_flags(t, TRUE))
\* Transaction::hash
Transaction_hash(t) == dhash256(serialize(t))
\* (faulty variant) witness_hash() over the encoding without the witness
Transaction_witness_hash_plain(t) == dhash256(serialize(t))
\* Transaction::witness_hash
Transaction_witness_hash(t) == dhash256(serialize_with_flags(t, TRUE))

\* ------------------------------------------------------------------ reader
\* A reader result is [v, p, e]: the value read, the position of the next
\* unread byte, and the error ("" when none).  An error is carried through
\* every later read, as `?` does.
Fail(r, default) == [v |-> default, p |-> r.p, e |-> r.e]
\* no read: the reader stays where it is and the value is the default
Pass(r, default) == [v |-> default, p |-> r.p, e |-> r.e]

\* io::Read::read_exact behind Reader::read
ReadRaw(buf, r, n) ==
    IF r.e # "" THEN Fail(r, <<>>)
    ELSE IF r.p + n - 1 > Len(buf) THEN [v |-> <<>>, p |-> r.p, e |-> "UnexpectedEnd"]
    ELSE [v |-> SubSeq(buf, r.p, r.p + n - 1), p |-> r.p + n, e |-> ""]

\* the little-endian value of the bytes read
AsU8(b) == IF b.e # "" THEN [b EXCEPT !.v = 0] ELSE [b EXCEPT !.v = b.v[1]]
AsLimbs(b) ==
    [b EXCEPT !.v = [i \in 1..(Len(b.v) \div 2) |-> b.v[2 * i - 1] + 256 * b.v[2 * i]]]
AsI32(b) ==
    IF b.e # "" THEN [b EXCEPT !.v = 0]
    ELSE [b EXCEPT !.v = b.v[1] + 256 * b.v[2] + 65536 * b.v[3] + 16777216 * (b.v[4] % 128)
                           + (IF b.v[4] >= 128 THEN MinI32 ELSE 0)]

ReadU8(buf, r) == AsU8(ReadRaw(buf, r, 1))
ReadU16(buf, r) == AsLimbs(ReadRaw(buf, r, 2))
ReadU32(buf, r) == AsLimbs(ReadRaw(buf, r, 4))
ReadU64(buf, r) == AsLimbs(ReadRaw(buf, r, 8))
ReadI32(buf, r) == AsI32(ReadRaw(buf, r, 4))

\* a count that no buffer of the model can hold
HugeCount == 65536

\* the count held by the wider forms of a CompactInteger
AsCount(w) ==
    IF w.e # "" THEN [w EXCEPT !.v = 0]
    ELSE [w EXCEPT !.v = IF \A i \in 2..Len(w.v) : w.v[i] = 0 THEN w.v[1] ELSE HugeCount]

\* CompactInteger::deserialize after its first byte t
ReadCompactBody(buf, t) ==
    IF t.e # "" \/ t.v < 253 THEN t
    ELSE IF t.v = 253 THEN AsCount(ReadU16(buf, t))
    ELSE IF t.v = 254 THEN AsCount(ReadU32(buf, t))
    ELSE AsCount(ReadU64(buf, t))

\* CompactInteger::deserialize: no check that the shortest form was used
ReadCompact(buf, r) == ReadCompactBody(buf, ReadU8(buf, r))

\* the n.v bytes that follow the count n
ReadCounted(buf, n) == IF n.e # "" THEN Fail(n, <<>>) ELSE ReadRaw(buf, n, n.v)

ReadBytes(buf, r) == ReadCounted(buf, ReadCompact(buf, r))

\* The fields of a structure are read one after the other; r.v holds the
\* fields read so far.
Push(r, x) ==
    IF x.e # "" THEN Fail(x, <<>>) ELSE [v |-> Append(r.v, x.v), p |-> x.p, e |-> ""]
ReadNextRaw(buf, r, n) == Push(r, ReadRaw(buf, r, n))
ReadNextU32(buf, r) == Push(r, ReadU32(buf, r))
ReadNextU64(buf, r) == Push(r, ReadU64(buf, r))
ReadNextBytes(buf, r) == Push(r, ReadBytes(buf, r))

DefaultOutPoint == [hash |-> H256Zero, index |-> U32(0)]
AsOutPoint(f) ==
    IF f.e # "" THEN Fail(f, DefaultOutPoint)
    ELSE [v |-> [hash |-> f.v[1], index |-> f.v[2]], p |-> f.p, e |-> ""]
ReadOutPoint(buf, r) ==
    AsOutPoint(ReadNextU32(buf, ReadNextRaw(buf, Pass(r, <<>>), H256Len)))
ReadNextOutPoint(buf, r) == Push(r, ReadOutPoint(buf, r))

DefaultInput ==
    [previous_output |-> DefaultOutPoint, script_sig |-> <<>>, sequence |-> U32(0),
     script_witness |-> <<>>]
AsInput(f) ==
    IF f.e # "" THEN Fail(f, DefaultInput)
    ELSE [v |-> [previous_output |-> f.v[1], script_sig |-> f.v[2], sequence |-> f.v[3],
                 script_witness |-> <<>>],
          p |-> f.p, e |-> ""]
\* TransactionInput::deserialize
ReadInput(buf, r) ==
    AsInput(ReadNextU32(buf, ReadNextBytes(buf, ReadNextOutPoint(buf, Pass(r, <<>>)))))

AsOutput(f) ==
    IF f.e # "" THEN Fail(f, TransactionOutput_default)
    ELSE [v |-> [value |-> f.v[1], script_pubkey |-> f.v[2]], p |-> f.p, e |-> ""]
ReadOutput(buf, r) ==
    AsOutput(ReadNextBytes(buf, ReadNextU64(buf, Pass(r, <<>>))))

AsShieldedSpend(f) ==
    IF f.e # "" THEN Fail(f, <<>>)
    ELSE [v |-> [cv |-> f.v[1], anchor |-> f.v[2], nullifier |-> f.v[3], rk |-> f.v[4],
                 zkproof |-> f.v[5], spend_auth_sig |-> f.v[6]],
          p |-> f.p, e |-> ""]
ReadShieldedSpend(buf, r) ==
    AsShieldedSpend(
      ReadNextRaw(buf,
      ReadNextRaw(buf,
      ReadNextRaw(buf,
      ReadNextRaw(buf,
      ReadNextRaw(buf,
      ReadNextRaw(buf, Pass(r, <<>>),
        H256Len), H256Len), H256Len), H256Len), ZkProofSaplingLen), H512Len))

AsShieldedOutput(f) ==
    IF f.e # "" THEN Fail(f, <<>>)
    ELSE [v |-> [cv |-> f.v[1], cmu |-> f.v[2], ephemeral_key |-> f.v[3],
                 enc_cipher_text |-> f.v[4], out_cipher_text |-> f.v[5], zkproof |-> f.v[6]],
          p |-> f.p, e |-> ""]
ReadShieldedOutput(buf, r) ==
    AsShieldedOutput(
      ReadNextRaw(buf,
      ReadNextRaw(buf,
      ReadNextRaw(buf,
      ReadNextRaw(buf,
      ReadNextRaw(buf,
      ReadNextRaw(buf, Pass(r, <<>>),
        H256Len), H256Len), H256Len), EncCipherTextLen), OutCipherTextLen),
        ZkProofSaplingLen))

AsJoinSplit(f) ==
    IF f.e # "" THEN Fail(f, <<>>)
    ELSE [v |-> [v_pub_old |-> f.v[1], v_pub_new |-> f.v[2], anchor |-> f.v[3],
                 nullifiers |-> <<f.v[4], f.v[5]>>, commitments |-> <<f.v[6], f.v[7]>>,
                 ephemeral_key |-> f.v[8], random_seed |-> f.v[9],
                 macs |-> <<f.v[10], f.v[11]>>,
                 zkproof |-> f.v[12], ciphertexts |-> <<f.v[13], f.v[14]>>],
          p |-> f.p, e |-> ""]
\* JoinSplit::deserialize
ReadJoinSplit(buf, r) ==
    AsJoinSplit(
      ReadNextRaw(buf,
      ReadNextRaw(buf,
      ReadNextRaw(buf,
      ReadNextRaw(buf,
      ReadNextRaw(buf,
      ReadNextRaw(buf,
      ReadNextRaw(buf,
      ReadNextRaw(buf,
      ReadNextRaw(buf,
      ReadNextRaw(buf,
      ReadNextRaw(buf,
      ReadNextRaw(buf,
      ReadNextRaw(buf,
      ReadNextRaw(buf, Pass(r, <<>>),
        H64Len), H64Len), H256Len), H256Len), H256Len), H256Len), H256Len),
        H256Len), H256Len), H256Len), H256Len), ZkProofSaplingLen),
        CipherTextLen), CipherTextLen))

ReadItem(kind, buf, r) ==
    CASE kind = "input" -> ReadInput(buf, r)
      [] kind = "output" -> ReadOutput(buf, r)
      [] kind = "bytes" -> ReadBytes(buf, r)
      [] kind = "spend" -> ReadShieldedSpend(buf, r)
      [] kind = "soutput" -> ReadShieldedOutput(buf, r)
      [] kind = "joinsplit" -> ReadJoinSplit(buf, r)

\* the loop of Reader::read_list: n more items, r.v holds the items read
RECURSIVE ReadItems(_, _, _, _)
ReadItems(kind, buf, r, n) ==
    IF r.e # "" THEN Fail(r, <<>>)
    ELSE IF n = 0 THEN r
    ELSE ReadItems(kind, buf, Push(r, ReadItem(kind, buf, r)), n - 1)

\* Reader::read_list after its count n
ReadListOf(kind, buf, n) ==
    ReadItems(kind, buf, Pass(n, <<>>), IF n.e = "" THEN n.v ELSE 0)

\* Reader::read_list
ReadList(kind, buf, r) == ReadListOf(kind, buf, ReadCompact(buf, r))

\* input.script_witness = reader.read_list()?
SetWitness(r, k, w) ==
    IF w.e # "" THEN Fail(w, <<>>)
    ELSE [v |-> [r.v EXCEPT ![k].script_witness = w.v], p |-> w.p, e |-> ""]

\* for input in inputs.iter_mut() { ... }: r.v holds the inputs
RECURSIVE ReadWitnesses(_, _, _)
ReadWitnesses(buf, r, k) ==
    IF r.e # "" THEN Fail(r, <<>>)
    ELSE IF k > Len(r.v) THEN r
    ELSE ReadWitnesses(buf, SetWitness(r, k, ReadList("bytes", buf, r)), k + 1)

\* ------------------------------------------------- Transaction::deserialize
\* (faulty variant) any nonzero flag passes
CheckWitnessFlagNonzero(flag) ==
    IF flag.e = "" /\ flag.v = 0 THEN [flag EXCEPT !.e = "MalformedData"] ELSE flag

\* if witness_flag != WITNESS_FLAG { return Err(Error::MalformedData); }
CheckWitnessFlag(flag) ==
    IF flag.e = "" /\ flag.v # WITNESS_FLAG THEN [flag EXCEPT !.e = "MalformedData"] ELSE flag

\* (faulty variant) a binding signature that cannot be read is left zero
ReadBindingSigLenient(buf, r, overwintered, version, spends, souts) ==
    IF r.e = "" /\ overwintered /\ version >= 4 /\ ~(Len(spends) = 0 /\ Len(souts) = 0)
      THEN IF r.p + H512Len - 1 > Len(buf)
             THEN [v |-> H512Zero, p |-> Len(buf) + 1, e |-> ""]
             ELSE ReadRaw(buf, r, H512Len)
      ELSE Pass(r, H512Zero)

\* the read of binding_sig and its gate
ReadBindingSig(buf, r, overwintered, version, spends, souts) ==
    IF overwintered /\ version >= 4 /\ ~(Len(spends) = 0 /\ Len(souts) = 0)
      THEN ReadRaw(buf, r, H512Len)
      ELSE Pass(r, H512Zero)

\* The locals of Transaction::deserialize, with the reader's position p, the
\* error e that ended the decoding ("" when none) and the read that failed.
Locals ==
    [p |-> 1, e |-> "", stage |-> "done",
     header |-> 0, version_group_id |-> U32(0), inputs |-> <<>>, witness_flag |-> 0,
     read_witness |-> FALSE, outputs |-> <<>>, lock_time |-> U32(0),
     expiry_height |-> U32(0), value_balance |-> U64(0),
     shielded_spends |-> <<>>, shielded_outputs |-> <<>>, join_splits |-> <<>>,
     join_split_pubkey |-> H256Zero, join_split_sig |-> H512Zero,
     binding_sig |-> H512Zero]

\* let overwintered: bool = (header >> 31) != 0;
Local_overwintered(d) == d.header < 0
\* let version = if overwintered { header & 0x7FFFFFFF } else { header };
Local_version(d) == IF d.header < 0 THEN d.header - MinI32 ELSE d.header

\* local = reader.read()?  -- x is the result of the read
Bind(d, field, stage, x) ==
    IF d.e # "" THEN d
    ELSE IF x.e # "" THEN [d EXCEPT !.p = x.p, !.e = x.e, !.stage = stage]
    ELSE [d EXCEPT ![field] = x.v, !.p = x.p]

DesHeader(buf, d) == Bind(d, "header", "header", ReadI32(buf, d))

DesVersionGroupId(buf, d) ==
    IF Local_overwintered(d)
      THEN Bind(d, "version_group_id", "group_id", ReadU32(buf, d))
      ELSE d

DesInputs(buf, d) == Bind(d, "inputs", "inputs", ReadList("input", buf, d))

\* if inputs.is_empty() && !overwintered { let witness_flag: u8 = ...
DesWitnessFlag(buf, d) ==
    IF d.e = "" /\ d.inputs = <<>> /\ ~Local_overwintered(d)
      THEN Bind([d EXCEPT !.read_witness = TRUE], "witness_flag", "witness_flag",
                CheckWitnessFlag(ReadU8(buf, d)))
      ELSE d

\* ... inputs = reader.read_list()?; true }
DesWitnessInputs(buf, d) ==
    IF d.read_witness THEN Bind(d, "inputs", "inputs", ReadList("input", buf, d)) ELSE d

DesOutputs(buf, d) == Bind(d, "outputs", "outputs", ReadList("output", buf, d))

\* if read_witness { for input in inputs.iter_mut() { ... } }
DesWitnessStacks(buf, d) ==
    IF d.read_witness
      THEN Bind(d, "inputs", "witness_stacks", ReadWitnesses(buf, Pass(d, d.inputs), 1))
      ELSE d

DesLockTime(buf, d) == Bind(d, "lock_time", "lock_time", ReadU32(buf, d))

\* (faulty variant) expiry_height is read from version 4 on only
DesExpiryHeight_sapling_only(buf, d) ==
    IF Local_overwintered(d) /\ Local_version(d) >= 4
      THEN Bind(d, "expiry_height", "overwinter_extras", ReadU32(buf, d))
      ELSE d

\* if overwintered && version >= 3 { expiry_height = reader.read()?; ...
DesExpiryHeight(buf, d) ==
    IF Local_overwintered(d) /\ Local_version(d) >= 3
      THEN Bind(d, "expiry_height", "overwinter_extras", ReadU32(buf, d))
      ELSE d

\* ... if version >= 4 { value_balance, shielded_spends, shielded_outputs } }
DesValueBalance(buf, d) ==
    IF Local_overwintered(d) /\ Local_version(d) >= 4
      THEN Bind(d, "value_balance", "overwinter_extras", ReadU64(buf, d))
      ELSE d

DesShieldedSpends(buf, d) ==
    IF Local_overwintered(d) /\ Local_version(d) >= 4
      THEN Bind(d, "shielded_spends", "overwinter_extras", ReadList("spend", buf, d))
      ELSE d

DesShieldedOutputs(buf, d) ==
    IF Local_overwintered(d) /\ Local_version(d) >= 4
      THEN Bind(d, "shielded_outputs", "overwinter_extras", ReadList("soutput", buf, d))
      ELSE d

\* if version == 2 || overwintered { join_splits = reader.read_list()?; ...
DesJoinSplits(buf, d) ==
    IF Local_version(d) = 2 \/ Local_overwintered(d)
      THEN Bind(d, "join_splits", "joinsplit_extras", ReadList("joinsplit", buf, d))
      ELSE d

\* ... if join_splits.len() > 0 { join_split_pubkey, join_split_sig } }
DesJoinSplitPubkey(buf, d) ==
    IF (Local_version(d) = 2 \/ Local_overwintered(d)) /\ Len(d.join_splits) > 0
      THEN Bind(d, "join_split_pubkey", "joinsplit_extras", ReadRaw(buf, d, H256Len))
      ELSE d

DesJoinSplitSig(buf, d) ==
    IF (Local_version(d) = 2 \/ Local_overwintered(d)) /\ Len(d.join_splits) > 0
      THEN Bind(d, "join_split_sig", "joinsplit_extras", ReadRaw(buf, d, H512Len))
      ELSE d

DesBindingSig(buf, d) ==
    Bind(d, "binding_sig", "binding_sig",
         ReadBindingSig(buf, d, Local_overwintered(d), Local_version(d),
                        d.shielded_spends, d.shielded_outputs))

\* The result of Transaction::deserialize is Ok(tx) or Err(err).  `stage`
\* names the read that failed, `read_witness` the decoder's local of that
\* name and `consumed` the number of bytes taken from the reader.
NoTx == [none |-> TRUE]

DesResult(d) ==
    IF d.e # ""
      THEN [ok |-> FALSE, err |-> d.e, stage |-> d.stage, tx |-> NoTx,
            read_witness |-> FALSE, consumed |-> 0]
      ELSE [ok |-> TRUE, err |-> "", stage |-> "done",
            tx |-> [version |-> Local_version(d),
                    overwintered |-> Local_overwintered(d),
                    version_group_id |-> d.version_group_id,
                    expiry_height |-> d.expiry_height,
                    value_balance |-> d.value_balance,
                    inputs |-> d.inputs,
                    outputs |-> d.outputs,
                    lock_time |-> d.lock_time,
                    binding_sig |-> d.binding_sig,
                    join_split_pubkey |-> d.join_split_pubkey,
                    join_split_sig |-> d.join_split_sig,
                    join_splits |-> d.join_splits,
                    shielded_spends |-> d.shielded_spends,
                    shielded_outputs |-> d.shielded_outputs],
            read_witness |-> d.read_witness, consumed |-> d.p - 1]

Transaction_deserialize(buf) ==
    DesResult(
      DesBindingSig(buf,
      DesJoinSplitSig(buf,
      DesJoinSplitPubkey(buf,
      DesJoinSplits(buf,
      DesShieldedOutputs(buf,
      DesShieldedSpends(buf,
      DesValueBalance(buf,
      DesExpiryHeight(buf,
      DesLockTime(buf,
      DesWitnessStacks(buf,
      DesOutputs(buf,
      DesWitnessInputs(buf,
      DesWitnessFlag(buf,
      DesInputs(buf,
      DesVersionGroupId(buf,
      DesHeader(buf, Locals)))))))))))))))))

\* the value must use the whole buffer
AllRead(buf, r) ==
    IF r.ok /\ r.consumed # Len(buf)
      THEN [r EXCEPT !.ok = FALSE, !.err = "UnreadData", !.tx = NoTx,
                     !.read_witness = FALSE, !.consumed = 0]
      ELSE r

\* ser::deserialize(buffer)
deserialize(buf) == AllRead(buf, Transaction_deserialize(buf))

\* ------------------------------------------------------------ the universe
SeqsUpTo(S, n) == UNION {[1..k -> S] : k \in 0..n}

HOne == Blob(H256Len, 1)
In0 == [previous_output |-> OutPoint_null, script_sig |-> <<>>,
        sequence |-> SEQUENCE_FINAL, script_witness |-> <<>>]
In1 == [previous_output |-> [hash |-> HOne, index |-> U32(1)], script_sig |-> <<81>>,
        sequence |-> U32(0), script_witness |-> << <<7>> >>]
InputSet == {In0, In1}
Out0 == [value |-> <<61440, 10757, 1, 0>>, script_pubkey |-> <<81>>]
OutputSet == {Out0}
Versions == {1, 2, 3, 4}
LockTimes == {U32(17)}
SaplingGroupId == <<8325, 35119>>

Spend0 ==
    [cv |-> Blob(H256Len, 2), anchor |-> Blob(H256Len, 3), nullifier |-> Blob(H256Len, 4),
     rk |-> Blob(H256Len, 5), zkproof |-> Blob(ZkProofSaplingLen, 6),
     spend_auth_sig |-> Blob(H512Len, 7)]
SOutput0 ==
    [cv |-> Blob(H256Len, 8), cmu |-> Blob(H256Len, 9), ephemeral_key |-> Blob(H256Len, 10),
     enc_cipher_text |-> Blob(EncCipherTextLen, 11),
     out_cipher_text |-> Blob(OutCipherTextLen, 12), zkproof |-> Blob(ZkProofSaplingLen, 13)]
JoinSplit0 ==
    [v_pub_old |-> Blob(H64Len, 14), v_pub_new |-> Blob(H64Len, 15),
     anchor |-> Blob(H256Len, 16),
     nullifiers |-> <<Blob(H256Len, 17), Blob(H256Len, 18)>>,
     commitments |-> <<Blob(H256Len, 19), Blob(H256Len, 20)>>,
     ephemeral_key |-> Blob(H256Len, 21), random_seed |-> Blob(H256Len, 22),
     macs |-> <<Blob(H256Len, 23), Blob(H256Len, 24)>>,
     zkproof |-> Blob(ZkProofSaplingLen, 25),
     ciphertexts |-> <<Blob(CipherTextLen, 26), Blob(CipherTextLen, 27)>>]

\* A transaction as a decoder or a builder leaves it: `version` holds the
\* low 31 bits, and the Zcash fields are zero where the format has no place
\* for them.
MkTx(v, ow, ins, outs, lt, ns, no, nj) ==
    [version |-> v,
     overwintered |-> ow,
     version_group_id |-> IF ow THEN SaplingGroupId ELSE U32(0),
     inputs |-> ins,
     outputs |-> outs,
     lock_time |-> lt,
     expiry_height |-> IF ow THEN U32(5) ELSE U32(0),
     shielded_spends |-> [k \in 1..ns |-> Spend0],
     shielded_outputs |-> [k \in 1..no |-> SOutput0],
     join_splits |-> [k \in 1..nj |-> JoinSplit0],
     value_balance |-> IF ow /\ v >= 4 THEN U64(9) ELSE U64(0),
     join_split_pubkey |-> IF nj > 0 THEN Blob(H256Len, 28) ELSE H256Zero,
     join_split_sig |-> IF nj > 0 THEN Blob(H512Len, 29) ELSE H512Zero,
     binding_sig |-> IF ns + no > 0 THEN Blob(H512Len, 30) ELSE H512Zero]

TxShape(v, ow, ins, outs, ns, no, nj) ==
    /\ ow => v >= 3
    /\ ns + no > 0 => (ow /\ v >= 4)
    /\ nj > 0 => (v = 2 \/ ow)
    /\ (ow \/ nj > 0) => Len(ins) + Len(outs) <= MaxZcashIO

TxUniverse ==
    {MkTx(c[1], c[2], c[3], c[4], c[5], c[6], c[7], c[8]) :
       c \in {d \in Versions \X BOOLEAN \X SeqsUpTo(InputSet, MaxInputs)
                       \X SeqsUpTo(OutputSet, MaxOutputs) \X LockTimes
                       \X (0..MaxShieldedSpends) \X (0..MaxShieldedOutputs)
                       \X (0..MaxJoinSplits) :
                TxShape(d[1], d[2], d[3], d[4], d[6], d[7], d[8])}}

ExtraBytes == SeqsUpTo({0}, MaxExtra)

\* ------------------------------------------------------ sighash flag model
SigVersions == {"Base", "WitnessV0", "ForkId"}

\* (faulty variant) bit 0x40 sets fork_id under every signature version
Sighash_from_u32_any_version(version, u) ==
    [base |-> CASE u[1] % 32 = 2 -> "None"
                [] u[1] % 32 = 3 -> "Single"
                [] OTHER -> "All",
     anyone_can_pay |-> (u[1] \div 128) % 2 = 1,
     fork_id |-> (u[1] \div 64) % 2 = 1]

\* Sighash::from_u32
Sighash_from_u32(version, u) ==
    [base |-> CASE u[1] % 32 = 2 -> "None"
                [] u[1] % 32 = 3 -> "Single"
                [] OTHER -> "All",
     anyone_can_pay |-> (u[1] \div 128) % 2 = 1,
     fork_id |-> version = "ForkId" /\ (u[1] \div 64) % 2 = 1]

\* (faulty variant) fork_id is not written back
Sighash_into_u32_no_fork_id(s) ==
    U32((CASE s.base = "All" -> 1 [] s.base = "None" -> 2 [] s.base = "Single" -> 3)
          + (IF s.anyone_can_pay THEN 128 ELSE 0))

\* impl From<Sighash> for u32: the bits are disjoint, so `|` adds
Sighash_into_u32(s) ==
    U32((CASE s.base = "All" -> 1 [] s.base = "None" -> 2 [] s.base = "Single" -> 3)
          + (IF s.anyone_can_pay THEN 128 ELSE 0)
          + (IF s.fork_id THEN 64 ELSE 0))

\* (faulty variant) bit 0x40 is cleared under every signature version
Sighash_is_defined_clear_fork_id(version, u) ==
    /\ u[2] = 0
    /\ (u[1] - 128 * ((u[1] \div 128) % 2) - 64 * ((u[1] \div 64) % 2)) \in {1, 2, 3}

\* Sighash::is_defined: u is two 16-bit limbs, the low one first
Sighash_is_defined(version, u) ==
    /\ u[2] = 0
    /\ (u[1] - 128 * ((u[1] \div 128) % 2)
              - (IF version = "ForkId" THEN 64 * ((u[1] \div 64) % 2) ELSE 0)) \in {1, 2, 3}

\* ---------------------------------------------------------------- address
AddressHashLen == 20
ChecksumLen == 4
ChecksumTypes == <<"DSHA256", "DGROESTL512", "KECCAK256">>

\* crypto::checksum: the first four bytes of the digest of data that sum_type
\* names.  The digest is a box: a mark of the hash function and three
\* bytes that depend on all of data.
checksum(data, sum_type) ==
    << -(10 + (CHOOSE i \in 1..3 : ChecksumTypes[i] = sum_type)),
       Len(data) % 256,
       (IF data = <<>> THEN 0 ELSE data[1] + data[Len(data)]) % 256,
       (IF data = <<>> THEN 0 ELSE data[1] + 3 * data[(Len(data) + 1) \div 2]) % 256 >>

\* detect_checksum: the first checksum type whose checksum of data is
\* check_sum, "" when there is none
detect_checksum(data, check_sum) ==
    IF check_sum = checksum(data, "DSHA256") THEN "DSHA256"
    ELSE IF check_sum = checksum(data, "DGROESTL512") THEN "DGROESTL512"
    ELSE IF check_sum = checksum(data, "KECCAK256") THEN "KECCAK256"
    ELSE ""

\* Address::layout
Address_layout(a) ==
    (IF a.t_addr_prefix > 0 THEN <<a.t_addr_prefix>> ELSE <<>>)
      \o <<a.prefix>> \o a.hash
      \o checksum((IF a.t_addr_prefix > 0 THEN <<a.t_addr_prefix>> ELSE <<>>)
                    \o <<a.prefix>> \o a.hash, a.sum_type)

NoAddress == [none |-> TRUE]
AddressOk(a) == [ok |-> TRUE, err |-> "", address |-> a]
AddressErr(e) == [ok |-> FALSE, err |-> e, address |-> NoAddress]

\* the arm of Address::from_layout for a layout with n prefix bytes
FromLayoutArm(data, n, sum_type) ==
    IF sum_type = "" THEN AddressErr("InvalidChecksum")
    ELSE AddressOk([t_addr_prefix |-> IF n = 2 THEN data[1] ELSE 0,
                    prefix |-> data[n],
                    hash |-> SubSeq(data, n + 1, n + AddressHashLen),
                    sum_type |-> sum_type])

\* Address::from_layout
Address_from_layout(data) ==
    CASE Len(data) = 25 ->
           FromLayoutArm(data, 1, detect_checksum(SubSeq(data, 1, 21), SubSeq(data, 22, 25)))
      [] Len(data) = 26 ->
           FromLayoutArm(data, 2, detect_checksum(SubSeq(data, 1, 22), SubSeq(data, 23, 26)))
      [] OTHER -> AddressErr("InvalidAddress")

\* ------------------------------------------------------------- conversions
\* impl From<TransactionInput> for UnsignedTransactionInput
UnsignedTransactionInput_from(i) ==
    [previous_output |-> i.previous_output, sequence |-> i.sequence, amount |-> U64(0)]

\* impl From<Transaction> for TransactionInputSigner
TransactionInputSigner_from(t) ==
    [version |-> t.version,
     overwintered |-> t.overwintered,
     version_group_id |-> t.version_group_id,
     consensus_branch_id |-> U32(0),
     expiry_height |-> t.expiry_height,
     value_balance |-> t.value_balance,
     inputs |-> [k \in 1..Len(t.inputs) |-> UnsignedTransactionInput_from(t.inputs[k])],
     outputs |-> t.outputs,
     lock_time |-> t.lock_time,
     join_splits |-> t.join_splits,
     shielded_spends |-> t.shielded_spends,
     shielded_outputs |-> t.shielded_outputs]

\* impl From<TransactionInputSigner> for Transaction
Transaction_from(s) ==
    [version |-> s.version,
     overwintered |-> s.overwintered,
     version_group_id |-> s.version_group_id,
     expiry_height |-> s.expiry_height,
     value_balance |-> s.value_balance,
     inputs |-> [k \in 1..Len(s.inputs) |->
                   [previous_output |-> s.inputs[k].previous_output,
                    script_sig |-> <<>>,
                    sequence |-> s.inputs[k].sequence,
                    script_witness |-> <<>>]],
     outputs |-> s.outputs,
     lock_time |-> s.lock_time,
     join_splits |-> s.join_splits,
     shielded_spends |-> s.shielded_spends,
     shielded_outputs |-> s.shielded_outputs,
     binding_sig |-> H512Zero,
     join_split_pubkey |-> H256Zero,
     join_split_sig |-> H512Zero]

\* --------------------------------------------------- signature hash engine
ZCASH_PREVOUTS_HASH_PERSONALIZATION == <<90, 99, 97, 115, 104, 80, 114, 101, 118, 111, 117, 116, 72, 97, 115, 104>>
ZCASH_SEQUENCE_HASH_PERSONALIZATION == <<90, 99, 97, 115, 104, 83, 101, 113, 117, 101, 110, 99, 72, 97, 115, 104>>
ZCASH_OUTPUTS_HASH_PERSONALIZATION == <<90, 99, 97, 115, 104, 79, 117, 116, 112, 117, 116, 115, 72, 97, 115, 104>>
ZCASH_JOIN_SPLITS_HASH_PERSONALIZATION == <<90, 99, 97, 115, 104, 74, 83, 112, 108, 105, 116, 115, 72, 97, 115, 104>>
ZCASH_SHIELDED_SPENDS_HASH_PERSONALIZATION == <<90, 99, 97, 115, 104, 83, 83, 112, 101, 110, 100, 115, 72, 97, 115, 104>>
ZCASH_SHIELDED_OUTPUTS_HASH_PERSONALIZATION == <<90, 99, 97, 115, 104, 83, 79, 117, 116, 112, 117, 116, 72, 97, 115, 104>>
ZCASH_SIG_HASH_PERSONALIZATION == <<90, 99, 97, 115, 104, 83, 105, 103, 72, 97, 115, 104>>

\* The outcome of a call: a value, or the abort of the thread (an index out
\* of bounds, an unwrap of Err).
Value(d) == [k |-> "value", v |-> d]
Ok(d) == [k |-> "Ok", v |-> d]
Err(m) == [k |-> "Err", v |-> m]
Panic == [k |-> "panic", v |-> <<>>]
\* Result::unwrap
unwrap(r) == IF r.k = "Ok" THEN Value(r.v) ELSE Panic

\* Script::without_separators: the script without its OP_CODESEPARATOR
\* opcodes; the bytes of a direct push (opcodes 1..75) are data
RECURSIVE without_separators(_)
without_separators(s) ==
    IF s = <<>> THEN <<>>
    ELSE IF Head(s) = OP_CODESEPARATOR THEN without_separators(Tail(s))
    ELSE IF Head(s) >= 1 /\ Head(s) <= 75
      THEN LET n == IF Head(s) + 1 <= Len(s) THEN Head(s) + 1 ELSE Len(s)
           IN  SubSeq(s, 1, n) \o without_separators(SubSeq(s, n + 1, Len(s)))
    ELSE <<Head(s)>> \o without_separators(Tail(s))

\* (faulty variant) the outpoints are hashed whatever anyone_can_pay is
compute_hash_prevouts_always(sighash, inputs) ==
    dhash256(Flatten([k \in 1..Len(inputs) |-> SerOutPoint(inputs[k].previous_output)]))

compute_hash_prevouts(sighash, inputs) ==
    IF ~sighash.anyone_can_pay
      THEN dhash256(Flatten([k \in 1..Len(inputs) |-> SerOutPoint(inputs[k].previous_output)]))
      ELSE H256FromU8(0)

\* (faulty variant) the sequences are hashed for All whatever anyone_can_pay is
compute_hash_sequence_all(sighash, inputs) ==
    IF sighash.base = "All"
      THEN dhash256(Flatten([k \in 1..Len(inputs) |-> SerU32(inputs[k].sequence)]))
      ELSE H256FromU8(0)

compute_hash_sequence(sighash, inputs) ==
    IF sighash.base = "All" /\ ~sighash.anyone_can_pay
      THEN dhash256(Flatten([k \in 1..Len(inputs) |-> SerU32(inputs[k].sequence)]))
      ELSE H256FromU8(0)

\* input_index counts from 0, TLA+ sequences from 1
compute_hash_outputs(sighash, input_index, outputs) ==
    IF sighash.base = "All"
      THEN dhash256(Flatten([k \in 1..Len(outputs) |-> SerOutput(outputs[k])]))
    ELSE IF sighash.base = "Single" /\ input_index < Len(outputs)
      THEN dhash256(SerOutput(outputs[input_index + 1]))
    ELSE H256FromU8(0)

\* TransactionInputSigner::signature_hash_witness0
signature_hash_witness0(s, input_index, input_amount, script_pubkey, sighashtype, sighash) ==
    LET hash_prevouts == compute_hash_prevouts(sighash, s.inputs)
        hash_sequence == compute_hash_sequence(sighash, s.inputs)
        hash_outputs == compute_hash_outputs(sighash, input_index, s.outputs)
    IN  IF input_index >= Len(s.inputs) THEN Panic
        ELSE Value(dhash256(
               SerI32(s.version) \o hash_prevouts \o hash_sequence
                 \o SerOutPoint(s.inputs[input_index + 1].previous_output)
                 \o SerBytes(script_pubkey)
                 \o SerU64(input_amount)
                 \o SerU32(s.inputs[input_index + 1].sequence)
                 \o hash_outputs \o SerU32(s.lock_time) \o SerU32(sighashtype)))

\* TransactionInputSigner::signature_hash_fork_id
signature_hash_fork_id(s, input_index, input_amount, script_pubkey, sighashtype, sighash) ==
    IF input_index >= Len(s.inputs) THEN Value(H256FromU8(1))
    ELSE IF sighash.base = "Single" /\ input_index >= Len(s.outputs) THEN Value(H256FromU8(1))
    ELSE signature_hash_witness0(s, input_index, input_amount, script_pubkey, sighashtype, sighash)

\* the personalization of the final hash
SigHashPersonalization(s) ==
    ZCASH_SIG_HASH_PERSONALIZATION
      \o (IF s.version >= 3 THEN SerU32(s.consensus_branch_id) ELSE <<>>)

\* the bytes fed to the final hash, up to the fields of the signed input
OverwinteredPreimageHead(s, sighashtype) ==
    SerI32(IF s.overwintered /\ s.version >= 0 THEN s.version + MinI32 ELSE s.version)
      \o SerU32(s.version_group_id)
      \o blake_2b_256_personal(
           Flatten([k \in 1..Len(s.inputs) |-> SerOutPoint(s.inputs[k].previous_output)]),
           ZCASH_PREVOUTS_HASH_PERSONALIZATION)
      \o blake_2b_256_personal(
           Flatten([k \in 1..Len(s.inputs) |-> SerU32(s.inputs[k].sequence)]),
           ZCASH_SEQUENCE_HASH_PERSONALIZATION)
      \o blake_2b_256_personal(
           Flatten([k \in 1..Len(s.outputs) |-> SerOutput(s.outputs[k])]),
           ZCASH_OUTPUTS_HASH_PERSONALIZATION)
      \o (IF Len(s.join_splits) > 0
            THEN blake_2b_256_personal(
                   Flatten([k \in 1..Len(s.join_splits) |-> SerJoinSplit(s.join_splits[k])]),
                   ZCASH_JOIN_SPLITS_HASH_PERSONALIZATION)
            ELSE H256Zero)
      \o (IF Len(s.shielded_spends) > 0
            THEN blake_2b_256_personal(
                   Flatten([k \in 1..Len(s.shielded_spends) |->
                              s.shielded_spends[k].cv \o s.shielded_spends[k].anchor
                                \o s.shielded_spends[k].nullifier \o s.shielded_spends[k].rk
                                \o s.shielded_spends[k].zkproof]),
                   ZCASH_SHIELDED_SPENDS_HASH_PERSONALIZATION)
            ELSE H256Zero)
      \o (IF Len(s.shielded_outputs) > 0
            THEN blake_2b_256_personal(
                   Flatten([k \in 1..Len(s.shielded_outputs) |->
                              SerShieldedOutput(s.shielded_outputs[k])]),
                   ZCASH_SHIELDED_OUTPUTS_HASH_PERSONALIZATION)
            ELSE H256Zero)
      \o SerU32(s.lock_time) \o SerU32(s.expiry_height) \o SerU64(s.value_balance)
      \o SerU32(sighashtype)

\* (faulty variant) the flags select what is hashed, as in the legacy
\* algorithm: no output under None, only the signed input under anyone_can_pay
signature_hash_overwintered_by_flags(s, input_index, script_pubkey, sighashtype, sighash) ==
    IF input_index >= Len(s.inputs) THEN Panic
    ELSE Ok(blake_2b_256_personal(
              OverwinteredPreimageHead(
                  [s EXCEPT !.outputs = IF sighash.base = "None" THEN <<>> ELSE @,
                            !.inputs = IF sighash.anyone_can_pay
                                         THEN <<s.inputs[input_index + 1]>> ELSE @],
                  sighashtype)
                \o SerOutPoint(s.inputs[input_index + 1].previous_output)
                \o SerBytes(script_pubkey)
                \o SerU64(s.inputs[input_index + 1].amount)
                \o SerU32(s.inputs[input_index + 1].sequence),
              SigHashPersonalization(s)))

\* TransactionInputSigner::signature_hash_overwintered
signature_hash_overwintered(s, input_index, script_pubkey, sighashtype, sighash) ==
    IF input_index >= Len(s.inputs) THEN Panic
    ELSE Ok(blake_2b_256_personal(
              OverwinteredPreimageHead(s, sighashtype)
                \o SerOutPoint(s.inputs[input_index + 1].previous_output)
                \o SerBytes(script_pubkey)
                \o SerU64(s.inputs[input_index + 1].amount)
                \o SerU32(s.inputs[input_index + 1].sequence),
              SigHashPersonalization(s)))

\* (faulty variant) the other inputs keep their sequence under Single and None
LegacyInputs_keep_sequence(s, input_index, script_pubkey, sighash) ==
    IF sighash.anyone_can_pay
      THEN << [previous_output |-> s.inputs[input_index + 1].previous_output,
               script_sig |-> script_pubkey,
               sequence |-> s.inputs[input_index + 1].sequence,
               script_witness |-> <<>>] >>
      ELSE [n \in 1..Len(s.inputs) |->
              [previous_output |-> s.inputs[n].previous_output,
               script_sig |-> IF n - 1 = input_index THEN script_pubkey ELSE <<>>,
               sequence |-> s.inputs[n].sequence,
               script_witness |-> <<>>]]

\* the inputs of the transaction the legacy algorithm hashes
LegacyInputs(s, input_index, script_pubkey, sighash) ==
    IF sighash.anyone_can_pay
      THEN << [previous_output |-> s.inputs[input_index + 1].previous_output,
               script_sig |-> script_pubkey,
               sequence |-> s.inputs[input_index + 1].sequence,
               script_witness |-> <<>>] >>
      ELSE [n \in 1..Len(s.inputs) |->
              [previous_output |-> s.inputs[n].previous_output,
               script_sig |-> IF n - 1 = input_index THEN script_pubkey ELSE <<>>,
               sequence |-> IF sighash.base \in {"Single", "None"} /\ n - 1 # input_index
                              THEN U32(0) ELSE s.inputs[n].sequence,
               script_witness |-> <<>>]]

\* (faulty variant) Single keeps the earlier outputs as they are
LegacyOutputs_no_blank(s, input_index, sighash) ==
    CASE sighash.base = "All" -> s.outputs
      [] sighash.base = "Single" ->
           SubSeq(s.outputs, 1, IF input_index + 1 <= Len(s.outputs)
                                  THEN input_index + 1 ELSE Len(s.outputs))
      [] sighash.base = "None" -> <<>>

\* (faulty variant) Single keeps the outputs after the signed index, blanked
LegacyOutputs_single_keeps_all(s, input_index, sighash) ==
    CASE sighash.base = "All" -> s.outputs
      [] sighash.base = "Single" ->
           [n \in 1..Len(s.outputs) |->
              IF n - 1 = input_index THEN s.outputs[n] ELSE TransactionOutput_default]
      [] sighash.base = "None" -> <<>>

\* the outputs of the transaction the legacy algorithm hashes
LegacyOutputs(s, input_index, sighash) ==
    CASE sighash.base = "All" -> s.outputs
      [] sighash.base = "Single" ->
           [n \in 1..(IF input_index + 1 <= Len(s.outputs)
                        THEN input_index + 1 ELSE Len(s.outputs)) |->
              IF n - 1 = input_index THEN s.outputs[n] ELSE TransactionOutput_default]
      [] sighash.base = "None" -> <<>>

\* the transaction the legacy algorithm hashes
LegacyTx(s, input_index, script_pubkey, sighash) ==
    [inputs |-> LegacyInputs(s, input_index, without_separators(script_pubkey), sighash),
     outputs |-> LegacyOutputs(s, input_index, sighash),
     version |-> s.version,
     lock_time |-> s.lock_time,
     binding_sig |-> H512Zero,
     expiry_height |-> U32(0),
     join_split_pubkey |-> H256Zero,
     join_split_sig |-> H512Zero,
     join_splits |-> <<>>,
     overwintered |-> FALSE,
     shielded_spends |-> <<>>,
     shielded_outputs |-> <<>>,
     value_balance |-> U64(0),
     version_group_id |-> U32(0)]

\* (faulty variant) the redirect to the overwintered algorithm comes first
signature_hash_original_redirect_first(s, input_index, script_pubkey, sighashtype, sighash) ==
    IF s.version >= 3 /\ s.overwintered
      THEN unwrap(signature_hash_overwintered(s, input_index, script_pubkey, sighashtype, sighash))
    ELSE IF input_index >= Len(s.inputs) THEN Value(H256FromU8(1))
    ELSE IF sighash.base = "Single" /\ input_index >= Len(s.outputs) THEN Value(H256FromU8(1))
    ELSE Value(dhash256(
           Transaction_serialize(LegacyTx(s, input_index, script_pubkey, sighash), FALSE)
             \o SerU32(sighashtype)))

\* TransactionInputSigner::signature_hash_original
signature_hash_original(s, input_index, script_pubkey, sighashtype, sighash) ==
    IF input_index >= Len(s.inputs) THEN Value(H256FromU8(1))
    ELSE IF sighash.base = "Single" /\ input_index >= Len(s.outputs) THEN Value(H256FromU8(1))
    ELSE IF s.version >= 3 /\ s.overwintered
      THEN unwrap(signature_hash_overwintered(s, input_index, script_pubkey, sighashtype, sighash))
    ELSE Value(dhash256(
           Transaction_serialize(LegacyTx(s, input_index, script_pubkey, sighash), FALSE)
             \o SerU32(sighashtype)))

\* (faulty variant) ForkId takes the fork-id path whatever the hash type says
signature_hash_forkid_always(s, input_index, input_amount, script_pubkey, sigversion, sighashtype) ==
    LET sighash == Sighash_from_u32(sigversion, sighashtype)
    IN  CASE sigversion = "ForkId" ->
               signature_hash_fork_id(s, input_index, input_amount, script_pubkey,
                                      sighashtype, sighash)
          [] sigversion = "Base" ->
               signature_hash_original(s, input_index, script_pubkey, sighashtype, sighash)
          [] sigversion = "WitnessV0" ->
               signature_hash_witness0(s, input_index, input_amount, script_pubkey,
                                       sighashtype, sighash)

\* (faulty variant) under Base the signed input commits to the amount passed
\* as argument
signature_hash_amount_argument(s, input_index, input_amount, script_pubkey, sigversion, sighashtype) ==
    LET sighash == Sighash_from_u32(sigversion, sighashtype)
    IN  CASE sigversion = "ForkId" /\ sighash.fork_id ->
               signature_hash_fork_id(s, input_index, input_amount, script_pubkey,
                                      sighashtype, sighash)
          [] sigversion \in {"Base", "ForkId"} /\ ~(sigversion = "ForkId" /\ sighash.fork_id) ->
               signature_hash_original(
                   IF input_index < Len(s.inputs)
                     THEN [s EXCEPT !.inputs[input_index + 1].amount = input_amount]
                     ELSE s,
                   input_index, script_pubkey, sighashtype, sighash)
          [] sigversion = "WitnessV0" ->
               signature_hash_witness0(s, input_index, input_amount, script_pubkey,
                                       sighashtype, sighash)

\* TransactionInputSigner::signature_hash
signature_hash(s, input_index, input_amount, script_pubkey, sigversion, sighashtype) ==
    LET sighash == Sighash_from_u32(sigversion, sighashtype)
    IN  CASE sigversion = "ForkId" /\ sighash.fork_id ->
               signature_hash_fork_id(s, input_index, input_amount, script_pubkey,
                                      sighashtype, sighash)
          [] sigversion \in {"Base", "ForkId"} /\ ~(sigversion = "ForkId" /\ sighash.fork_id) ->
               signature_hash_original(s, input_index, script_pubkey, sighashtype, sighash)
          [] sigversion = "WitnessV0" ->
               signature_hash_witness0(s, input_index, input_amount, script_pubkey,
                                       sighashtype, sighash)

\* The DER signature is a blob of SignatureLen bytes (70 to 72 with
\* secp256k1); its first element stands for what the signature depends on.
SignatureLen == 3
\* Private::sign, with a secret that is a valid key
Private_sign(key, message) ==
    Ok(<<[key |-> key, message |-> message]>> \o Blob(SignatureLen - 1, 48))
\* Builder::push_data(data).into_script().to_bytes(): the length as opcode
\* below OP_PUSHDATA1 (76), OP_PUSHDATA1 and the length in a byte otherwise
Builder_push_data(data) ==
    IF Len(data) < 76 THEN <<Len(data)>> \o data ELSE <<76, Len(data)>> \o data

\* signed_input after `let hash = self.signature_hash(...)`
SignedInputOf(s, key, input_index, sighash, hash, type_byte) ==
    IF hash.k = "panic" THEN Panic
    ELSE IF input_index >= Len(s.inputs) THEN Panic
    ELSE Value([previous_output |-> s.inputs[input_index + 1].previous_output,
                sequence |-> s.inputs[input_index + 1].sequence,
                script_sig |-> Builder_push_data(
                                 unwrap(Private_sign(key, hash.v)).v \o <<type_byte>>),
                script_witness |-> <<>>])

\* (faulty variant) the byte pushed after the signature is the base alone
signed_input_base_byte(s, key, input_index, input_amount, script_pubkey, sigversion, sighash) ==
    SignedInputOf(s, key, input_index, sighash,
                  signature_hash(s, input_index, input_amount, script_pubkey,
                                 sigversion, sighash),
                  sighash[1] % 32)

\* TransactionInputSigner::signed_input; `sighash as u8` keeps the low byte
signed_input(s, key, input_index, input_amount, script_pubkey, sigversion, sighash) ==
    SignedInputOf(s, key, input_index, sighash,
                  signature_hash(s, input_index, input_amount, script_pubkey,
                                 sigversion, sighash),
                  sighash[1] % 256)

\* ------------------------------------------------------------ codec machine
VARIABLES
    tx,            \* the transaction in memory
    wire,          \* its encoding
    fed,           \* the buffer handed to deserialize
    decoded,       \* the result of deserialize
    reenc,         \* the encoding of the decoded transaction
    h, wh,         \* hash() and witness_hash() of tx
    op,            \* the operation that produced the state
    signer,        \* the TransactionInputSigner
    input_index, input_amount, script_pubkey, sigversion, sighashtype,
    result         \* the outcome of the signature-hash call

codecVars == <<tx, wire, fed, decoded, reenc, h, wh>>
signVars == <<signer, input_index, input_amount, script_pubkey, sigversion, sighashtype, result>>
vars == <<codecVars, signVars, op>>

NoSigner == [none |-> TRUE]
NoOutcome == [k |-> "none", v |-> <<>>]
SignIdle ==
    /\ signer = NoSigner
    /\ input_index = 0
    /\ input_amount = U64(0)
    /\ script_pubkey = <<>>
    /\ sigversion = "Base"
    /\ sighashtype = U32(1)
    /\ result = NoOutcome

NoResult == [ok |-> FALSE, err |-> "", stage |-> "", tx |-> NoTx,
             read_witness |-> FALSE, consumed |-> 0]

Init ==
    /\ tx \in TxUniverse
    /\ wire = <<>>
    /\ fed = <<>>
    /\ decoded = NoResult
    /\ reenc = <<>>
    /\ h = <<>>
    /\ wh = <<>>
    /\ op = "new"
    /\ SignIdle

\* serialize(&tx) and serialize_with_flags(&tx, SERIALIZE_TRANSACTION_WITNESS)
Serialize(flag) ==
    /\ op = "new"
    /\ wire' = serialize_with_flags(tx, flag)
    /\ op' = "encoded"
    /\ UNCHANGED <<tx, fed, decoded, reenc, h, wh, signVars>>

\* a peer that frames every transaction with the witness marker and flag
PeerFrame ==
    /\ op = "new"
    /\ ~tx.overwintered
    /\ wire' = SerializeWitness(tx)
    /\ op' = "encoded"
    /\ UNCHANGED <<tx, fed, decoded, reenc, h, wh, signVars>>

\* deserialize(buffer), the buffer being the first k bytes of the encoding,
\* or the whole of it followed by bytes of the next message
Deserialize(k, extra) ==
    /\ op = "encoded"
    /\ extra # <<>> => k = Len(wire)
    /\ fed' = SubSeq(wire, 1, k) \o extra
    /\ decoded' = deserialize(fed')
    /\ op' = "decoded"
    /\ UNCHANGED <<tx, wire, reenc, h, wh, signVars>>

\* serialize the decoded transaction the way it was framed
Reserialize ==
    /\ op = "decoded"
    /\ decoded.ok
    /\ reenc' = serialize_with_flags(decoded.tx, decoded.read_witness)
    /\ op' = "reencoded"
    /\ UNCHANGED <<tx, wire, fed, decoded, h, wh, signVars>>

\* Transaction::hash and Transaction::witness_hash
Hash ==
    /\ op = "new"
    /\ h' = Transaction_hash(tx)
    /\ wh' = Transaction_witness_hash(tx)
    /\ op' = "hashed"
    /\ UNCHANGED <<tx, wire, fed, decoded, reenc, signVars>>

Next ==
    \/ \E flag \in BOOLEAN : Serialize(flag)
    \/ PeerFrame
    \/ \E k \in 0..Len(wire), extra \in ExtraBytes : Deserialize(k, extra)
    \/ Reserialize
    \/ Hash

Spec == Init /\ [][Next]_vars

\* ------------------------------------------------------- signing machine
UIn0 == [previous_output |-> [hash |-> HOne, index |-> U32(0)],
         sequence |-> SEQUENCE_FINAL, amount |-> U64(50000)]
UIn1 == [previous_output |-> [hash |-> HOne, index |-> U32(1)],
         sequence |-> U32(5), amount |-> U64(7)]
UnsignedInputSet == {UIn0, UIn1}
Out1 == [value |-> U64(3), script_pubkey |-> <<82>>]
SignerOutputSet == {Out0, Out1}
SignerVersions == {2, 3}
SaplingBranchId == <<2491, 30392>>
\* SIGHASH_ALL, NONE, SINGLE, ALL|FORKID, SINGLE|FORKID, ALL|ANYONECANPAY,
\* SINGLE|ANYONECANPAY, ALL|FORKID|ANYONECANPAY
HashTypes == {U32(1), U32(2), U32(3), U32(65), U32(67), U32(129), U32(131), U32(65729)}
Scripts == {<<118, 171, 172>>}
Amounts == {U64(50000)}

MkSigner(v, ow, ins, outs, nz) ==
    [version |-> v,
     overwintered |-> ow,
     version_group_id |-> IF ow THEN SaplingGroupId ELSE U32(0),
     consensus_branch_id |-> IF ow THEN SaplingBranchId ELSE U32(0),
     expiry_height |-> IF ow THEN U32(5) ELSE U32(0),
     value_balance |-> IF ow THEN U64(9) ELSE U64(0),
     inputs |-> ins,
     outputs |-> outs,
     lock_time |-> U32(17),
     join_splits |-> [k \in 1..nz |-> JoinSplit0],
     shielded_spends |-> [k \in 1..nz |-> Spend0],
     shielded_outputs |-> [k \in 1..nz |-> SOutput0]]

SignerUniverse ==
    {MkSigner(c[1], c[2], c[3], c[4], c[5]) :
       c \in {d \in SignerVersions \X BOOLEAN \X SeqsUpTo(UnsignedInputSet, MaxInputs)
                       \X SeqsUpTo(SignerOutputSet, MaxOutputs) \X (0..MaxJoinSplits) :
                d[5] > 0 => d[2]}}

CodecIdle ==
    /\ tx = NoTx
    /\ wire = <<>>
    /\ fed = <<>>
    /\ decoded = NoResult
    /\ reenc = <<>>
    /\ h = <<>>
    /\ wh = <<>>

SignInit ==
    /\ CodecIdle
    /\ signer \in SignerUniverse
    /\ input_index \in 0..MaxIndex
    /\ input_amount \in Amounts
    /\ script_pubkey \in Scripts
    /\ sigversion \in SigVersions
    /\ sighashtype \in HashTypes
    /\ result = NoOutcome
    /\ op = "new"

\* signer.signature_hash(input_index, input_amount, &script, sigversion, sighashtype)
CallSignatureHash ==
    /\ op = "new"
    /\ result' = signature_hash(signer, input_index, input_amount, script_pubkey,
                                sigversion, sighashtype)
    /\ op' = "signature_hash"
    /\ UNCHANGED <<codecVars, signer, input_index, input_amount, script_pubkey,
                   sigversion, sighashtype>>

\* signer.signature_hash_original(input_index, &script, sighashtype, sighash)
CallSignatureHashOriginal ==
    /\ op = "new"
    /\ result' = signature_hash_original(signer, input_index, script_pubkey, sighashtype,
                                         Sighash_from_u32(sigversion, sighashtype))
    /\ op' = "signature_hash_original"
    /\ UNCHANGED <<codecVars, signer, input_index, input_amount, script_pubkey,
                   sigversion, sighashtype>>

\* signer.signature_hash_overwintered(input_index, &script, sighashtype, sighash)
CallSignatureHashOverwintered ==
    /\ op = "new"
    /\ result' = signature_hash_overwintered(signer, input_index, script_pubkey, sighashtype,
                                             Sighash_from_u32(sigversion, sighashtype))
    /\ op' = "signature_hash_overwintered"
    /\ UNCHANGED <<codecVars, signer, input_index, input_amount, script_pubkey,
                   sigversion, sighashtype>>

\* the secrets of the key pairs inputs are signed with
Keys == {1, 2}

\* signer.signed_input(&keypair, input_index, input_amount, &script, sigversion, sighashtype)
CallSignedInput ==
    /\ op = "new"
    /\ \E key \in Keys :
         result' = signed_input(signer, key, input_index, input_amount, script_pubkey,
                                sigversion, sighashtype)
    /\ op' = "signed_input"
    /\ UNCHANGED <<codecVars, signer, input_index, input_amount, script_pubkey,
                   sigversion, sighashtype>>

SignNext ==
    \/ CallSignatureHash
    \/ CallSignedInput
    \/ CallSignatureHashOriginal
    \/ CallSignatureHashOverwintered

SignSpec == SignInit /\ [][SignNext]_vars

\* ---------------------------------------------------- pure-function machine
\* The hash types the flag functions are called with: every low byte, with
\* and without bits above it.
FlagTypes == {<<lo, hi>> : lo \in (0..255) \cup {257, 258, 32769}, hi \in {0, 1}}

FlagInit ==
    /\ CodecIdle
    /\ signer = NoSigner
    /\ input_index = 0
    /\ input_amount = U64(0)
    /\ script_pubkey = <<>>
    /\ sigversion \in SigVersions
    /\ sighashtype \in FlagTypes
    /\ result = NoOutcome
    /\ op = "flags"

\* Sighash::from_u32(sigversion, sighashtype)
CallFromU32 ==
    /\ op = "flags"
    /\ result' = Value(Sighash_from_u32(sigversion, sighashtype))
    /\ op' = "from_u32"
    /\ UNCHANGED <<codecVars, signer, input_index, input_amount, script_pubkey,
                   sigversion, sighashtype>>

\* u32::from(Sighash::from_u32(sigversion, sighashtype))
CallIntoU32 ==
    /\ op = "flags"
    /\ result' = Value(Sighash_into_u32(Sighash_from_u32(sigversion, sighashtype)))
    /\ op' = "into_u32"
    /\ UNCHANGED <<codecVars, signer, input_index, input_amount, script_pubkey,
                   sigversion, sighashtype>>

\* Sighash::is_defined(sigversion, sighashtype)
CallIsDefined ==
    /\ op = "flags"
    /\ result' = Value(Sighash_is_defined(sigversion, sighashtype))
    /\ op' = "is_defined"
    /\ UNCHANGED <<codecVars, signer, input_index, input_amount, script_pubkey,
                   sigversion, sighashtype>>

\* The transactions the predicates are called on: those of the codec, and
\* plain ones whose inputs take every kind of outpoint and sequence.
PredOutPoints ==
    {OutPoint_null, [hash |-> H256Zero, index |-> <<65535, 0>>],
     [hash |-> HOne, index |-> <<65535, 65535>>], [hash |-> HOne, index |-> U32(1)]}
PredSequences == {SEQUENCE_FINAL, U32(0), <<65534, 65535>>}
PredInputs ==
    {[previous_output |-> o, script_sig |-> <<81>>, sequence |-> q, script_witness |-> <<>>] :
       o \in PredOutPoints, q \in PredSequences}
PredTxs ==
    {MkTx(1, FALSE, ins, <<Out0>>, lt, 0, 0, 0) :
       ins \in SeqsUpTo(PredInputs, MaxInputs), lt \in {U32(0), U32(17)}}

\* The transactions total_spends is called on: outputs with small values,
\* values near 2^63 and values near u64::MAX, in every order.
MaxSpendOutputs == 3
SpendValues ==
    {U64(0), U64(1), U64(50000), <<0, 0, 0, 32768>>, <<65535, 65535, 65535, 32767>>,
     <<65534, 65535, 65535, 65535>>, U64Max}
SpendTxs ==
    {MkTx(1, FALSE, <<In0>>, outs, U32(0), 0, 0, 0) :
       outs \in SeqsUpTo({[value |-> v, script_pubkey |-> <<81>>] : v \in SpendValues},
                         MaxSpendOutputs)}

TxInit ==
    /\ tx \in TxUniverse \cup PredTxs \cup SpendTxs
    /\ wire = <<>>
    /\ fed = <<>>
    /\ decoded = NoResult
    /\ reenc = <<>>
    /\ h = <<>>
    /\ wh = <<>>
    /\ SignIdle
    /\ op = "tx"

\* tx.is_coinbase()
CallIsCoinbase ==
    /\ op = "tx"
    /\ result' = Value(Transaction_is_coinbase(tx))
    /\ op' = "is_coinbase"
    /\ UNCHANGED <<codecVars, signer, input_index, input_amount, script_pubkey,
                   sigversion, sighashtype>>

\* tx.total_spends()
CallTotalSpends ==
    /\ op = "tx"
    /\ result' = Value(Transaction_total_spends(tx))
    /\ op' = "total_spends"
    /\ UNCHANGED <<codecVars, signer, input_index, input_amount, script_pubkey,
                   sigversion, sighashtype>>

\* tx.is_final()
CallIsFinal ==
    /\ op = "tx"
    /\ result' = Value(Transaction_is_final(tx))
    /\ op' = "is_final"
    /\ UNCHANGED <<codecVars, signer, input_index, input_amount, script_pubkey,
                   sigversion, sighashtype>>

\* let signer: TransactionInputSigner = tx.into()
IntoSigner ==
    /\ op = "tx"
    /\ signer' = TransactionInputSigner_from(tx)
    /\ op' = "signer"
    /\ UNCHANGED <<codecVars, input_index, input_amount, script_pubkey,
                   sigversion, sighashtype, result>>

\* let back: Transaction = signer.into()
IntoTransaction ==
    /\ op = "signer"
    /\ result' = Value(Transaction_from(signer))
    /\ op' = "transaction"
    /\ UNCHANGED <<codecVars, signer, input_index, input_amount, script_pubkey,
                   sigversion, sighashtype>>

\* The byte layouts handed to Address::from_layout: one or two prefix bytes,
\* a hash and a checksum of any of the three types or of none, and layouts of
\* other lengths.
PrefixBytes == {0, 28, 60}
AddressHashes == {Blob(AddressHashLen, 5), Blob(AddressHashLen, 0)}
LayoutBodies ==
    {<<p>> \o hh : p \in PrefixBytes, hh \in AddressHashes}
      \cup {<<tp, p>> \o hh : tp \in PrefixBytes, p \in PrefixBytes, hh \in AddressHashes}
Layouts ==
    {b \o checksum(b, ChecksumTypes[i]) : b \in LayoutBodies, i \in 1..3}
      \cup {b \o Blob(ChecksumLen, 0) : b \in LayoutBodies}
      \cup {Blob(24, 0), Blob(27, 0), <<>>}

LayoutInit ==
    /\ tx = NoTx
    /\ wire = <<>>
    /\ fed \in Layouts
    /\ decoded = NoResult
    /\ reenc = <<>>
    /\ h = <<>>
    /\ wh = <<>>
    /\ SignIdle
    /\ op = "bytes"

\* Address::from_layout(&fed)
FromLayout ==
    /\ op = "bytes"
    /\ decoded' = Address_from_layout(fed)
    /\ op' = "address"
    /\ UNCHANGED <<tx, wire, fed, reenc, h, wh, signVars>>

\* address.layout()
Layout ==
    /\ op = "address"
    /\ decoded.ok
    /\ reenc' = Address_layout(decoded.address)
    /\ op' = "layout"
    /\ UNCHANGED <<tx, wire, fed, decoded, h, wh, signVars>>

PureInit ==
    \/ FlagInit
    \/ TxInit
    \/ LayoutInit

PureNext ==
    \/ CallFromU32
    \/ CallIsDefined
    \/ CallIntoU32
    \/ CallIsCoinbase
    \/ CallIsFinal
    \/ CallTotalSpends
    \/ IntoSigner
    \/ IntoTransaction
    \/ FromLayout
    \/ Layout

PureSpec == PureInit /\ [][PureNext]_vars

\* ------------------------------------------------------------- the claims
IsPrefix(a, b) == Len(a) <= Len(b) /\ SubSeq(b, 1, Len(a)) = a

\* C1: every byte sequence that deserialize accepts is reproduced by
\* serializing the decoded transaction with the witness flag set exactly when
\* the decoder read the witness marker
C1_RoundTrip == op = "reencoded" => reenc = fed

\* the witness stacks the variants of a transaction are given
WitnessStacks == {<<>>, << <<7>> >>, << <<>>, <<7, 7>> >>}
\* the transactions equal to t in every field but the inputs' script_witness
WitnessVariants(t) ==
    {[t EXCEPT !.inputs = [k \in 1..Len(t.inputs) |->
                             [t.inputs[k] EXCEPT !.script_witness = w[k]]]] :
       w \in [1..Len(t.inputs) -> WitnessStacks]}

\* C2: hash() is the same for all transactions that differ only in the
\* script_witness of their inputs
C2_HashIgnoresWitness ==
    op = "hashed" => \A t2 \in WitnessVariants(tx) : Transaction_hash(t2) = h
C2_Witness ==
    /\ op = "hashed" /\ has_witness(tx) /\ Len(tx.inputs) = 2
    /\ \E t2 \in WitnessVariants(tx) : ~has_witness(t2) /\ Transaction_hash(t2) = h

\* C3: witness_hash() equals hash() exactly when no input carries a witness
C3_WitnessHashDiffers == op = "hashed" => ((wh = h) <=> ~has_witness(tx))
C3_Witness == op = "hashed" /\ has_witness(tx) /\ wh # h /\ ~TransactionInput_has_witness(tx.inputs[1])

\* C4: after an empty first input list of a non-overwintered transaction the
\* next byte is the witness flag: a flag other than 1 fails the decode with
\* MalformedData and no transaction; after a flag of 1 the buffer holds the
\* input list, the output list, one witness stack per input and lock_time
C4_WitnessFlag ==
    (op = "decoded" /\ Len(fed) >= 6 /\ fed[4] < 128 /\ fed[5] = 0) =>
        /\ fed[6] # 1 => (~decoded.ok /\ decoded.err = "MalformedData" /\ decoded.tx = NoTx)
        /\ (fed[6] = 1 /\ decoded.ok) =>
             (decoded.read_witness /\ IsPrefix(SerializeWitness(decoded.tx), fed))
C4_Witness ==
    /\ op = "decoded" /\ Len(fed) >= 6 /\ fed[4] < 128 /\ fed[5] = 0 /\ fed[6] = 2
    /\ decoded.err = "MalformedData" /\ decoded.stage = "witness_flag"

\* C5: a buffer that ends before the decode path has read all its fields is
\* refused with an error and no transaction: no proper prefix of an accepted
\* encoding is accepted
C5_PrefixRefused ==
    (op = "decoded" /\ Len(fed) < Len(wire) /\ deserialize(wire).ok) =>
        (~decoded.ok /\ decoded.err = "UnexpectedEnd" /\ decoded.tx = NoTx)
C5_Witness ==
    /\ op = "decoded" /\ Len(fed) < Len(wire) /\ deserialize(wire).ok
    /\ ~decoded.ok /\ decoded.stage = "binding_sig"

\* the signed-input index has no input, or no output under Single
OutOfRange ==
    \/ input_index >= Len(signer.inputs)
    \/ sighashtype[1] % 32 = 3 /\ input_index >= Len(signer.outputs)
ForkIdBit == (sighashtype[1] \div 64) % 2 = 1
Sentinel == [i \in 1..32 |-> IF i = 1 THEN 1 ELSE 0]

\* C6: signature_hash_original returns the digest 1 for an out-of-range
\* index, before the redirect to the overwintered algorithm
C6_OriginalSentinel ==
    (op = "signature_hash_original" /\ OutOfRange) => result = Value(Sentinel)
C6_Witness ==
    /\ op = "signature_hash_original" /\ OutOfRange /\ result = Value(Sentinel)
    /\ signer.overwintered /\ signer.version >= 3 /\ input_index >= Len(signer.inputs)

\* C7: every dispatch to the witness-v0 algorithm returns the digest 1 for an
\* out-of-range index
C7_WitnessSentinel ==
    (/\ op = "signature_hash"
     /\ sigversion = "WitnessV0" \/ (sigversion = "ForkId" /\ ForkIdBit)
     /\ OutOfRange) => result = Value(Sentinel)

\* C8: no signature-hash entry point aborts; signature_hash_overwintered
\* returns Ok or Err for every index
C8_NoPanic ==
    op \in {"signature_hash", "signature_hash_original", "signature_hash_overwintered"}
        => result.k # "panic"

\* C9: the overwintered sighash of a transaction of version below 3 is an
\* error
C9_UnsupportedVersion ==
    (op = "signature_hash_overwintered" /\ signer.version < 3
       /\ input_index < Len(signer.inputs)) => result.k = "Err"

\* C10: signature_hash runs the algorithm that (SignatureVersion, fork_id
\* bit, version, overwintered) select
C10_Dispatch ==
    op = "signature_hash" =>
      LET sighash == Sighash_from_u32(sigversion, sighashtype)
          witness0 == signature_hash_witness0(signer, input_index, input_amount,
                                              script_pubkey, sighashtype, sighash)
          zip243 == signature_hash_overwintered(signer, input_index, script_pubkey,
                                                sighashtype, sighash)
          legacy == dhash256(Transaction_serialize(
                               LegacyTx(signer, input_index, script_pubkey, sighash), FALSE)
                             \o SerU32(sighashtype))
      IN  CASE sigversion = "ForkId" /\ ForkIdBit ->
                 result = IF OutOfRange THEN Value(Sentinel) ELSE witness0
            [] sigversion = "WitnessV0" -> result = witness0
            [] OTHER ->
                 result = IF OutOfRange THEN Value(Sentinel)
                          ELSE IF signer.overwintered /\ signer.version >= 3
                            THEN Value(zip243.v)
                          ELSE Value(legacy)
C10_Witness ==
    /\ op = "signature_hash" /\ sigversion = "ForkId" /\ ~ForkIdBit /\ ~OutOfRange
    /\ signer.overwintered /\ signer.version >= 3 /\ result.k = "value"
    /\ result.v[1] = -3

\* bit k of the low limb of a hash type
TypeBit(u, k) == (u[1] \div (2 ^ k)) % 2 = 1

\* C11: Sighash::from_u32 gives a Sighash for every 32-bit hash type: base
\* None for low five bits 2, Single for 3, All for anything else; anyone_can_pay
\* is bit 0x80; fork_id is bit 0x40 under ForkId and false under Base and
\* WitnessV0
C11_FromU32 ==
    op = "from_u32" =>
      /\ result.k = "value"
      /\ result.v.base =
           (IF sighashtype[1] % 32 = 2 THEN "None"
            ELSE IF sighashtype[1] % 32 = 3 THEN "Single" ELSE "All")
      /\ result.v.anyone_can_pay = TypeBit(sighashtype, 7)
      /\ result.v.fork_id = (sigversion = "ForkId" /\ TypeBit(sighashtype, 6))
      /\ (sigversion # "ForkId" => ~result.v.fork_id)
C11_Witness ==
    /\ op = "from_u32" /\ sigversion = "WitnessV0" /\ sighashtype = <<64, 1>>
    /\ result = Value([base |-> "All", anyone_can_pay |-> FALSE, fork_id |-> FALSE])

\* C12: Sighash::is_defined is true exactly for the hash types 1, 2 and 3,
\* with or without bit 0x80, and under ForkId with or without bit 0x40; any
\* other bit makes it false
C12_IsDefined ==
    op = "is_defined" =>
      (result = Value(TRUE) <=>
         \E b \in {1, 2, 3}, acp \in {0, 128}, fid \in {0, 64} :
            /\ sighashtype = <<b + acp + fid, 0>>
            /\ fid = 64 => sigversion = "ForkId")
      /\ result.v \in BOOLEAN
C12_Witness ==
    /\ op = "is_defined" /\ sigversion = "Base" /\ sighashtype = <<65, 0>>
    /\ result = Value(FALSE)

\* the transaction t with the signing scripts of its inputs emptied
WithoutScripts(t) ==
    [t EXCEPT !.inputs = [k \in 1..Len(t.inputs) |->
                            [t.inputs[k] EXCEPT !.script_sig = <<>>, !.script_witness = <<>>]]]

\* C13: a transaction converted into a TransactionInputSigner and back is
\* the original in every field but the inputs' script_sig and script_witness,
\* which are empty
C13_SignerRoundTrip == op = "transaction" => result = Value(WithoutScripts(tx))

\* C15: is_coinbase() is true exactly for a transaction with one input whose
\* previous output has an all-zero hash and the index u32::MAX
C15_IsCoinbase ==
    op = "is_coinbase" =>
      (result = Value(TRUE) <=>
         /\ Len(tx.inputs) = 1
         /\ \A i \in 1..H256Len : tx.inputs[1].previous_output.hash[i] = 0
         /\ tx.inputs[1].previous_output.index = <<65535, 65535>>)
      /\ result.v \in BOOLEAN
C15_Witness ==
    /\ op = "is_coinbase" /\ result = Value(FALSE) /\ Len(tx.inputs) = 1
    /\ tx.inputs[1].previous_output.hash = H256Zero
    /\ tx.inputs[1].previous_output.index = <<65535, 0>>

\* C16: is_final() is true when lock_time is 0, and otherwise exactly when
\* every input's sequence is 0xFFFFFFFF
C16_IsFinal ==
    op = "is_final" =>
      /\ result.v \in BOOLEAN
      /\ tx.lock_time = <<0, 0>> => result = Value(TRUE)
      /\ tx.lock_time # <<0, 0>> =>
           (result = Value(TRUE) <=>
              \A k \in 1..Len(tx.inputs) : tx.inputs[k].sequence = <<65535, 65535>>)
C16_Witness ==
    /\ op = "is_final" /\ result = Value(TRUE) /\ tx.lock_time = <<0, 0>>
    /\ Len(tx.inputs) = 2 /\ tx.inputs[2].sequence = <<65534, 65535>>

\* C17: layout() of the Address that from_layout makes of a byte layout is
\* that byte layout
C17_LayoutRoundTrip == op = "layout" => reenc = fed

\* the call ran the legacy algorithm to its end
LegacyRan ==
    /\ \/ op = "signature_hash_original"
       \/ op = "signature_hash" /\ sigversion = "Base"
       \/ op = "signature_hash" /\ sigversion = "ForkId" /\ ~ForkIdBit
    /\ ~OutOfRange
    /\ ~(signer.overwintered /\ signer.version >= 3)
\* the call ran the witness-v0 algorithm to its end
WitnessRan ==
    /\ op = "signature_hash"
    /\ \/ sigversion = "WitnessV0"
       \/ sigversion = "ForkId" /\ ForkIdBit /\ ~OutOfRange
    /\ input_index < Len(signer.inputs)

\* the signers that agree with s on the input at input_index and on every
\* field but the inputs
OtherInputs(s) ==
    {[s EXCEPT !.inputs = ins] :
       ins \in {i \in SeqsUpTo(UnsignedInputSet, MaxInputs + 1) :
                 /\ Len(i) > input_index
                 /\ i[input_index + 1].previous_output
                      = s.inputs[input_index + 1].previous_output
                 /\ i[input_index + 1].sequence = s.inputs[input_index + 1].sequence}}
\* the call of the state, made on the signer s
SameCall(s) ==
    IF op = "signature_hash"
      THEN signature_hash(s, input_index, input_amount, script_pubkey, sigversion, sighashtype)
      ELSE signature_hash_original(s, input_index, script_pubkey, sighashtype,
                                   Sighash_from_u32(sigversion, sighashtype))

\* C14: with anyone_can_pay the legacy and the witness-v0 digest of a signed
\* input are the same for all signers that differ only in their other inputs
C14_AnyoneCanPay ==
    ((LegacyRan \/ WitnessRan) /\ TypeBit(sighashtype, 7)) =>
        \A s2 \in OtherInputs(signer) : SameCall(s2) = result
C14_Witness ==
    /\ WitnessRan /\ TypeBit(sighashtype, 7) /\ input_index = 0 /\ Len(signer.inputs) = 1
    /\ \E s2 \in OtherInputs(signer) : Len(s2.inputs) = 3 /\ SameCall(s2) = result
    /\ result.k = "value"

\* The transaction the legacy algorithm hashed, read back from the bytes
\* under the digest d: the hash box holds the serialized copy followed by
\* the four bytes of the hash type.
HashedCopy(d) == Transaction_deserialize(SubSeq(d, 2, Len(d) - 5))
NotSeparator(b) == b # OP_CODESEPARATOR
\* the base of the hash type
BaseIs(b) ==
    CASE b = "None" -> sighashtype[1] % 32 = 2
      [] b = "Single" -> sighashtype[1] % 32 = 3
      [] b = "All" -> sighashtype[1] % 32 \notin {2, 3}

\* the inputs of the copy c are those C18 describes
InputsAsClaimed(c) ==
    /\ c.ok
    /\ IF TypeBit(sighashtype, 7)
         THEN /\ Len(c.tx.inputs) = 1
              /\ c.tx.inputs[1].previous_output
                   = signer.inputs[input_index + 1].previous_output
              /\ c.tx.inputs[1].script_sig = SelectSeq(script_pubkey, NotSeparator)
              /\ c.tx.inputs[1].sequence = signer.inputs[input_index + 1].sequence
         ELSE /\ Len(c.tx.inputs) = Len(signer.inputs)
              /\ \A n \in 1..Len(signer.inputs) :
                   /\ c.tx.inputs[n].previous_output = signer.inputs[n].previous_output
                   /\ c.tx.inputs[n].script_sig =
                        (IF n = input_index + 1
                           THEN SelectSeq(script_pubkey, NotSeparator) ELSE <<>>)
                   /\ c.tx.inputs[n].sequence =
                        (IF n # input_index + 1 /\ (BaseIs("Single") \/ BaseIs("None"))
                           THEN <<0, 0>> ELSE signer.inputs[n].sequence)

\* C18: the inputs of the copy the legacy algorithm hashes: with
\* anyone_can_pay the signed input alone, with the separator-stripped script
\* and its own sequence; otherwise all inputs in order, the signed one with
\* the stripped script and the others with an empty script, and with
\* sequence 0 under Single and None
C18_LegacyInputs ==
    LegacyRan => (result.k = "value" /\ InputsAsClaimed(HashedCopy(result.v)))
C18_Witness ==
    /\ LegacyRan /\ BaseIs("None") /\ ~TypeBit(sighashtype, 7)
    /\ Len(signer.inputs) = 2 /\ input_index = 1
    /\ signer.inputs[1].sequence = <<65535, 65535>>
    /\ HashedCopy(result.v).tx.inputs[1].sequence = <<0, 0>>
    /\ HashedCopy(result.v).tx.inputs[2].script_sig = <<118, 172>>

\* the outputs of the copy c are those C19 describes
OutputsAsClaimed(c) ==
    /\ c.ok
    /\ BaseIs("All") => c.tx.outputs = signer.outputs
    /\ BaseIs("None") => c.tx.outputs = <<>>
    /\ BaseIs("Single") =>
         /\ Len(c.tx.outputs) = input_index + 1
         /\ c.tx.outputs[input_index + 1] = signer.outputs[input_index + 1]
         /\ \A n \in 1..input_index :
              c.tx.outputs[n] = [value |-> <<65535, 65535, 65535, 65535>>,
                                 script_pubkey |-> <<>>]

\* C19: the outputs of the copy the legacy algorithm hashes: all outputs for
\* All; for Single input_index + 1 outputs, the last the original one and the
\* earlier ones blank; none for None
C19_LegacyOutputs ==
    LegacyRan => (result.k = "value" /\ OutputsAsClaimed(HashedCopy(result.v)))
C19_Witness ==
    /\ LegacyRan /\ BaseIs("Single") /\ input_index = 1 /\ Len(signer.outputs) = 2
    /\ HashedCopy(result.v).tx.outputs[1].script_pubkey = <<>>
    /\ HashedCopy(result.v).tx.outputs[2] = signer.outputs[2]
    /\ signer.outputs[1].script_pubkey # <<>>

\* The digest that starts at position p of the preimage s: a hash box, from
\* its opening mark to its closing mark, or 32 plain bytes.
DigestAt(s, p) ==
    IF s[p] = -1
      THEN SubSeq(s, p, CHOOSE q \in p..Len(s) :
                           s[q] = -2 /\ \A j \in p..(q - 1) : s[j] # -2)
      ELSE SubSeq(s, p, p + 31)
\* the sub-hashes of the witness-v0 preimage s: after the version come
\* H(prevouts) and H(sequences); H(outputs) follows the outpoint, the
\* script with its length byte, the amount and the sequence
WithSequences(s, hp) == <<hp, DigestAt(s, 5 + Len(hp))>>
OutputsAt(s, q) == q + 36 + 1 + s[q + 36] + 8 + 4
WithOutputs(s, hs) ==
    Append(hs, DigestAt(s, OutputsAt(s, 5 + Len(hs[1]) + Len(hs[2]))))
SubHashes(d) ==
    WithOutputs(SubSeq(d, 2, Len(d) - 1),
                WithSequences(SubSeq(d, 2, Len(d) - 1), DigestAt(SubSeq(d, 2, Len(d) - 1), 5)))
ZeroDigest == [i \in 1..32 |-> 0]

\* the three sub-hashes hs are those of the flag table
SubHashesAsClaimed(hs) ==
    /\ hs[1] = IF TypeBit(sighashtype, 7) THEN ZeroDigest
               ELSE dhash256(Flatten([k \in 1..Len(signer.inputs) |->
                                        SerOutPoint(signer.inputs[k].previous_output)]))
    /\ hs[2] = IF BaseIs("All") /\ ~TypeBit(sighashtype, 7)
                 THEN dhash256(Flatten([k \in 1..Len(signer.inputs) |->
                                          SerU32(signer.inputs[k].sequence)]))
                 ELSE ZeroDigest
    /\ hs[3] = IF BaseIs("All")
                 THEN dhash256(Flatten([k \in 1..Len(signer.outputs) |->
                                          SerOutput(signer.outputs[k])]))
               ELSE IF BaseIs("Single") /\ input_index < Len(signer.outputs)
                 THEN dhash256(SerOutput(signer.outputs[input_index + 1]))
               ELSE ZeroDigest

\* C20: the sub-hashes of the witness-v0 preimage follow the flag table:
\* H(prevouts) is zero under anyone_can_pay, H(sequences) is zero unless the
\* base is All without anyone_can_pay, H(outputs) covers all outputs for All,
\* the output at input_index for Single in range, and is zero otherwise
C20_WitnessSubHashes ==
    WitnessRan => (result.k = "value" /\ SubHashesAsClaimed(SubHashes(result.v)))
C20_Witness ==
    /\ WitnessRan /\ sigversion = "WitnessV0" /\ BaseIs("Single")
    /\ input_index = 1 /\ Len(signer.inputs) = 2 /\ Len(signer.outputs) = 1
    /\ SubHashes(result.v)[3] = ZeroDigest
    /\ SubHashes(result.v)[1] # ZeroDigest

\* the call ran the ZIP-243 algorithm to its end
OverwinteredRan ==
    \/ op = "signature_hash_overwintered" /\ input_index < Len(signer.inputs)
    \/ /\ op \in {"signature_hash", "signature_hash_original"}
       /\ op = "signature_hash" => (sigversion = "Base" \/ (sigversion = "ForkId" /\ ~ForkIdBit))
       /\ ~OutOfRange
       /\ signer.overwintered /\ signer.version >= 3
\* the personalization of the BLAKE2b box d: the bytes between its opening
\* mark and the mark that ends the personalization
PersonalOf(d) ==
    SubSeq(d, 2, (CHOOSE q \in 2..Len(d) : d[q] = -4 /\ \A j \in 2..(q - 1) : d[j] # -4) - 1)
\* the bytes of "ZcashSigHash"
ZcashSigHash == <<90, 99, 97, 115, 104, 83, 105, 103, 72, 97, 115, 104>>

\* C21: the personalization of the final ZIP-243 hash is 16 bytes for every
\* signer: "ZcashSigHash" and the little-endian consensus_branch_id of the
\* signer
C21_Personalization ==
    OverwinteredRan =>
      /\ Len(PersonalOf(result.v)) = 16
      /\ PersonalOf(result.v) =
           ZcashSigHash \o <<signer.consensus_branch_id[1] % 256,
                              signer.consensus_branch_id[1] \div 256,
                              signer.consensus_branch_id[2] % 256,
                              signer.consensus_branch_id[2] \div 256>>

\* the preimage of the BLAKE2b box d: the bytes after the mark that ends the
\* personalization
PreimageOf(d) ==
    SubSeq(d, (CHOOSE q \in 2..Len(d) : d[q] = -4 /\ \A j \in 2..(q - 1) : d[j] # -4) + 1,
           Len(d) - 1)
\* the place where the box that opens at pos of p closes
BoxEnd(p, pos) == CHOOSE e \in pos..Len(p) : p[e] = -5 /\ \A j \in pos..(e - 1) : p[j] # -5
\* the n boxes that follow each other in p from pos on
RECURSIVE BoxesFrom(_, _, _)
BoxesFrom(p, pos, n) ==
    IF n = 0 THEN <<>>
    ELSE <<SubSeq(p, pos, BoxEnd(p, pos))>> \o BoxesFrom(p, BoxEnd(p, pos) + 1, n - 1)
\* the three sub-hashes of a ZIP-243 preimage, which follow the header and
\* the version group id
CoverageHashes(p) == BoxesFrom(p, 9, 3)
FullCoverage(s, hs) ==
    /\ hs[1] = <<-3>> \o ZCASH_PREVOUTS_HASH_PERSONALIZATION \o <<-4>>
                 \o Flatten([k \in 1..Len(s.inputs) |->
                               s.inputs[k].previous_output.hash
                                 \o SerU32(s.inputs[k].previous_output.index)])
                 \o <<-5>>
    /\ hs[2] = <<-3>> \o ZCASH_SEQUENCE_HASH_PERSONALIZATION \o <<-4>>
                 \o Flatten([k \in 1..Len(s.inputs) |-> SerU32(s.inputs[k].sequence)])
                 \o <<-5>>
    /\ hs[3] = <<-3>> \o ZCASH_OUTPUTS_HASH_PERSONALIZATION \o <<-4>>
                 \o Flatten([k \in 1..Len(s.outputs) |->
                               SerU64(s.outputs[k].value) \o SerBytes(s.outputs[k].script_pubkey)])
                 \o <<-5>>
\* every decomposition of a hash type into base and flags
AllSighashes ==
    [base : {"All", "None", "Single"}, anyone_can_pay : BOOLEAN, fork_id : BOOLEAN]

\* C22: signature_hash_overwintered covers all outpoints, all sequences and
\* all outputs whatever the hash type, and the decomposed flags do not change
\* the digest: only the 32-bit hash type written into the preimage does
C22_FullCoverage ==
    (op = "signature_hash_overwintered" /\ input_index < Len(signer.inputs)) =>
      /\ result.k = "Ok"
      /\ FullCoverage(signer, CoverageHashes(PreimageOf(result.v)))
      /\ \A sh \in AllSighashes :
            signature_hash_overwintered(signer, input_index, script_pubkey,
                                        sighashtype, sh) = result
\* a call with anyone_can_pay and base Single on a signer with two inputs
\* and an output
C22_Witness ==
    /\ op = "signature_hash_overwintered" /\ input_index < Len(signer.inputs)
    /\ result.k = "Ok"
    /\ sighashtype = U32(131)
    /\ Len(signer.inputs) = 2 /\ Len(signer.outputs) >= 1

\* the encoding of a transaction with its witness, field by field
WitnessLayout(t) ==
    <<t.version % 256, (t.version \div 256) % 256,
      (t.version \div 65536) % 256, (t.version \div 16777216) % 256>>
      \o <<0, 1>>
      \o SerCompact(Len(t.inputs)) \o Flatten([k \in 1..Len(t.inputs) |-> SerInput(t.inputs[k])])
      \o SerCompact(Len(t.outputs))
      \o Flatten([k \in 1..Len(t.outputs) |-> SerOutput(t.outputs[k])])
      \o Flatten([k \in 1..Len(t.inputs) |->
                    SerCompact(Len(t.inputs[k].script_witness))
                      \o Flatten([j \in 1..Len(t.inputs[k].script_witness) |->
                                    SerBytes(t.inputs[k].script_witness[j])])])
      \o SerU32(t.lock_time)
\* the encoding at hand was made with the witness: the transaction has
\* witness data and the bytes are not its plain encoding
EncodedWithWitness ==
    op = "encoded" /\ tx.version >= 0 /\ has_witness(tx) /\ wire # serialize(tx)

\* C23: the encoding with the witness is the plain version, marker 0, flag 1,
\* the inputs, the outputs, one witness stack per input and lock_time, and no
\* Zcash field, whatever overwintered and version are
C23_WitnessLayout == EncodedWithWitness => wire = WitnessLayout(tx)
\* an overwintered Sapling transaction encoded with its witness
C23_Witness ==
    /\ EncodedWithWitness
    /\ tx.overwintered /\ tx.version = 4
    /\ Len(tx.shielded_spends) > 0 /\ Len(tx.join_splits) > 0

\* the gates of the optional fields of transaction t
GateGroupId(t) == t.overwintered
GateExpiry(t) == t.overwintered /\ t.version >= 3
GateSapling(t) == t.overwintered /\ t.version >= 4
GateJoinSplits(t) == t.version = 2 \/ t.overwintered
GateJoinSplitSig(t) == GateJoinSplits(t) /\ Len(t.join_splits) > 0
GateBindingSig(t) ==
    /\ t.overwintered /\ t.version >= 4
    /\ Len(t.shielded_spends) + Len(t.shielded_outputs) > 0
\* field, when the gate is open
Under(gate, field) == IF gate THEN field ELSE <<>>
\* the encoding without the witness, each optional field under its gate
GatedLayout(t) ==
    SerI32(IF t.overwintered THEN t.version + MinI32 ELSE t.version)
      \o Under(GateGroupId(t), SerU32(t.version_group_id))
      \o SerInputList(t.inputs) \o SerOutputList(t.outputs) \o SerU32(t.lock_time)
      \o Under(GateExpiry(t), SerU32(t.expiry_height))
      \o Under(GateSapling(t), SerU64(t.value_balance))
      \o Under(GateSapling(t), SerSpendList(t.shielded_spends))
      \o Under(GateSapling(t), SerSOutputList(t.shielded_outputs))
      \o Under(GateJoinSplits(t), SerJoinSplitList(t.join_splits))
      \o Under(GateJoinSplitSig(t), t.join_split_pubkey \o t.join_split_sig)
      \o Under(GateBindingSig(t), t.binding_sig)
\* every field of t whose gate is closed has its zero or empty value
ClosedGatesZero(t) ==
    /\ ~GateGroupId(t) => t.version_group_id = U32(0)
    /\ ~GateExpiry(t) => t.expiry_height = U32(0)
    /\ ~GateSapling(t) =>
          t.value_balance = U64(0) /\ t.shielded_spends = <<>> /\ t.shielded_outputs = <<>>
    /\ ~GateJoinSplits(t) => t.join_splits = <<>>
    /\ ~GateJoinSplitSig(t) => t.join_split_pubkey = H256Zero /\ t.join_split_sig = H512Zero
    /\ ~GateBindingSig(t) => t.binding_sig = H512Zero
\* t as the encoding without the witness carries it
WithoutWitness(t) ==
    [t EXCEPT !.inputs = [k \in 1..Len(t.inputs) |-> [t.inputs[k] EXCEPT !.script_witness = <<>>]]]

\* C24: the encoding without the witness writes, and decoding reads, each
\* optional field under the same gate, and a field whose gate is closed
\* decodes to its zero or empty value
C24_Gates ==
    /\ (op = "encoded" /\ wire = serialize(tx)) => wire = GatedLayout(tx)
    /\ (op = "decoded" /\ decoded.ok) => ClosedGatesZero(decoded.tx)
    /\ (op = "decoded" /\ decoded.ok /\ ~decoded.read_witness) =>
          fed = GatedLayout(decoded.tx)
    /\ (op = "decoded" /\ fed = serialize(tx) /\ (tx.inputs # <<>> \/ tx.overwintered)) =>
          decoded.ok /\ decoded.tx = WithoutWitness(tx)
\* an Overwinter transaction (version 3) with join splits decoded from its
\* encoding: the gates of expiry_height and of the join-split fields are
\* open, those of the Sapling fields closed
C24_Witness ==
    /\ op = "decoded" /\ fed = serialize(tx) /\ decoded.ok
    /\ tx.overwintered /\ tx.version = 3 /\ Len(tx.join_splits) > 0
    /\ decoded.tx.expiry_height # U32(0)
    /\ decoded.tx.value_balance = U64(0)

\* every Zcash field of t has its zero or empty value
ZcashFieldsZero(t) ==
    /\ t.version_group_id = U32(0) /\ t.expiry_height = U32(0) /\ t.value_balance = U64(0)
    /\ t.shielded_spends = <<>> /\ t.shielded_outputs = <<>> /\ t.join_splits = <<>>
    /\ t.join_split_pubkey = H256Zero /\ t.join_split_sig = H512Zero
    /\ t.binding_sig = H512Zero

\* C25: for a transaction that is not overwintered, has version >= 0, an
\* input with a witness and no Zcash data, the encoding with the witness
\* decodes to the transaction, for every version
C25_WitnessRoundTrip ==
    (/\ op = "decoded" /\ fed = serialize_with_flags(tx, TRUE)
     /\ ~tx.overwintered /\ tx.version >= 0 /\ has_witness(tx) /\ ZcashFieldsZero(tx))
      => (decoded.ok /\ decoded.tx = tx)

\* amounts a caller may pass as input_amount
ProbeAmounts == {U64(0), U64(7), U64(50000), <<65535, 65535, 65535, 65535>>}
\* the amount a ZIP-243 preimage p commits to: the eight bytes before the
\* sequence that ends it
CommittedAmount(p) == SubSeq(p, Len(p) - 11, Len(p) - 4)
\* a Base call on an overwintered signer of version >= 3, the index in range
OverwinteredBase ==
    /\ op = "signature_hash" /\ sigversion = "Base"
    /\ signer.overwintered /\ signer.version >= 3
    /\ ~OutOfRange

\* C26: on the overwintered path signature_hash gives the digest of
\* signature_hash_overwintered, which commits to the amount held by the
\* signer's input, whatever amount is passed as input_amount
C26_AmountIgnored ==
    OverwinteredBase =>
      /\ result = unwrap(signature_hash_overwintered(
                            signer, input_index, script_pubkey, sighashtype,
                            Sighash_from_u32(sigversion, sighashtype)))
      /\ result.k = "value"
      /\ CommittedAmount(PreimageOf(result.v))
           = SerU64(signer.inputs[input_index + 1].amount)
      /\ \A a \in ProbeAmounts :
            signature_hash(signer, input_index, a, script_pubkey, sigversion, sighashtype)
              = result
\* the signer's input holds another amount than the one passed
C26_Witness ==
    /\ OverwinteredBase
    /\ result.k = "value"
    /\ signer.inputs[input_index + 1].amount # input_amount

\* C27: a hash type that is defined under a signature version comes back
\* unchanged from from_u32 followed by the conversion to u32
C27_DefinedRoundTrip ==
    (op = "into_u32" /\ Sighash_is_defined(sigversion, sighashtype)) =>
      result = Value(sighashtype)
\* Single with anyone_can_pay and the fork id bit, under ForkId
C27_Witness ==
    /\ op = "into_u32" /\ sigversion = "ForkId"
    /\ Sighash_is_defined(sigversion, sighashtype)
    /\ sighashtype = U32(195)
    /\ result = Value(sighashtype)

\* the signers that agree with s on the output at input_index and on every
\* field but the outputs
OtherOutputs(s) ==
    {[s EXCEPT !.outputs = outs] :
       outs \in {o \in SeqsUpTo(SignerOutputSet, MaxOutputs + 1) :
                  /\ Len(o) > input_index
                  /\ o[input_index + 1] = s.outputs[input_index + 1]}}

\* C28: with base Single and the index below the output count, the legacy
\* digest is the same for all signers that have the same output at the
\* signed index, whatever their other outputs are and however many follow
C28_SingleOutput ==
    (LegacyRan /\ sighashtype[1] % 32 = 3) =>
        \A s2 \in OtherOutputs(signer) : SameCall(s2) = result
\* the second input of a signer with two outputs is signed
C28_Witness ==
    /\ LegacyRan /\ sighashtype[1] % 32 = 3
    /\ input_index = 1 /\ Len(signer.outputs) = 2
    /\ signer.outputs[1] # TransactionOutput_default
    /\ result.k = "value" /\ result.v # H256FromU8(1)

\* the sum of limb k of the values of the outputs
RECURSIVE ColumnSum(_, _, _)
ColumnSum(outputs, k, n) ==
    IF n = 0 THEN 0 ELSE outputs[n].value[k] + ColumnSum(outputs, k, n - 1)
\* the exact sum of the values, as limbs of 16 bits with the carry out of
\* the fourth limb as fifth element
RECURSIVE CarriedFrom(_, _, _)
CarriedFrom(outputs, k, c) ==
    IF k > 4 THEN <<c>>
    ELSE <<(ColumnSum(outputs, k, Len(outputs)) + c) % 65536>>
           \o CarriedFrom(outputs, k + 1, (ColumnSum(outputs, k, Len(outputs)) + c) \div 65536)
ExactSum(outputs) == CarriedFrom(outputs, 1, 0)
Saturated(sum) == IF sum[5] = 0 THEN SubSeq(sum, 1, 4) ELSE <<65535, 65535, 65535, 65535>>

\* C29: total_spends returns the sum of the output values when the sum fits
\* in 64 bits and u64::MAX otherwise
C29_TotalSpends ==
    op = "total_spends" => result = Value(Saturated(ExactSum(tx.outputs)))
\* three outputs whose sum passes 2^64 only with the third
C29_Witness ==
    /\ op = "total_spends" /\ Len(tx.outputs) = 3
    /\ ExactSum(SubSeq(tx.outputs, 1, 2))[5] = 0
    /\ ExactSum(tx.outputs)[5] > 0
    /\ tx.outputs[3].value # <<65535, 65535, 65535, 65535>>
    /\ result = Value(<<65535, 65535, 65535, 65535>>)
\* the sum of the values is u64::MAX itself
C29_WitnessExact ==
    /\ op = "total_spends" /\ Len(tx.outputs) = 2
    /\ ExactSum(tx.outputs) = <<65535, 65535, 65535, 65535, 0>>
    /\ tx.outputs[1].value = <<0, 0, 0, 32768>>

\* the script that is one push of data: the push opcode is the length of
\* the data, which is all that follows it
SinglePush(script, data) ==
    /\ Len(script) = Len(data) + 1
    /\ script[1] = Len(data)
    /\ SubSeq(script, 2, Len(script)) = data

\* C30: for an index below the input count signed_input returns an input
\* with the previous_output and the sequence of the signer's input at that
\* index, an empty script_witness, and as script_sig one push of the
\* signature of the digest of signature_hash followed by one byte, the low
\* 8 bits of the hash type
C30_SignedInput ==
    (op = "signed_input" /\ input_index < Len(signer.inputs)) =>
      /\ result.k = "value"
      /\ result.v.previous_output = signer.inputs[input_index + 1].previous_output
      /\ result.v.sequence = signer.inputs[input_index + 1].sequence
      /\ result.v.script_witness = <<>>
      /\ \E key \in Keys :
            SinglePush(result.v.script_sig,
                       Private_sign(key, signature_hash(signer, input_index, input_amount,
                                                        script_pubkey, sigversion,
                                                        sighashtype).v).v
                         \o <<(sighashtype[1] % 65536) % 256>>)
\* the second input is signed with a hash type that has bits above the low
\* byte
C30_Witness ==
    /\ op = "signed_input" /\ input_index = 1 /\ Len(signer.inputs) = 2
    /\ sighashtype[2] # 0
    /\ result.k = "value"
    /\ result.v.script_sig[Len(result.v.script_sig)] = sighashtype[1] % 256

====
